---- MODULE Spec2Model ----
(***************************************************************************)
(* Agent control loop of the browser-automation operator.                  *)
(*                                                                         *)
(* Server side: the /api/navigate route (src/unnamed/part_010) with its    *)
(* process-wide registry activeSessions, and the older route               *)
(* (src/unnamed/part_002) with a registry of its own.                      *)
(* Client side: the orchestration in Home (src/unnamed/part_001):          *)
(* handleSubmit, handleFollowUp, handleExecuteAction,                      *)
(* handleTerminateSession, handleTransitionComplete, handleReturnToStart,  *)
(* gated by the form of ChatInterface (src/app/components/ChatInterface).  *)
(*                                                                         *)
(* JavaScript runs a handler without interruption between two awaits, so   *)
(* every action below is the code between one await and the next.          *)
(***************************************************************************)
EXTENDS Integers, Sequences, FiniteSets, TLC

\* ---------------------------------------------------------------- bounds
\* tasks the user may submit from the initial view, each with a session of
\* its own
MaxSessions == 1
\* Stagehand objects the server may construct in one behaviour
MaxHandles == 3
\* planning calls (GET_NEXT_STEP) one run may issue
MaxPlan == 2
\* ActionDescriptors one observe() call may return
MaxActions == 2
\* follow-up tasks the user may submit in one behaviour
MaxFollowUps == 1
\* DELETE requests the user may issue in one behaviour
MaxTerminate == 1

Sessions == 1..MaxSessions
Handles == 1..MaxHandles
NoSession == 0
NoHandle == 0
NoObs == -1
NoData == 0

\* ------------------------------------------------------------ step records
\* BrowserStep.tool
Tools == {"GOTO", "ACT", "EXTRACT", "OBSERVE", "WAIT", "NAVBACK", "COMPLETE"}

\* BrowserStep.utilityBoolean: optional, so "absent" is a value of its own
Flags == {"true", "false", "absent"}

Truthy(flag) == flag = "true"

\* BrowserStep; observation is the number of ActionDescriptors returned
\* (NoObs when the field is undefined), extraction is NoData or a payload
BrowserStep(tool, flag, n) ==
  [tool |-> tool, utilityBoolean |-> flag, stepNumber |-> n,
   observation |-> NoObs, extraction |-> NoData]

NoStep == BrowserStep("NONE", "absent", 0)

\* the objects the reasoning service may return for GET_NEXT_STEP: the schema
\* makes utilityBoolean a required boolean; it only matters for OBSERVE and ACT
NextStepChoices ==
  {<<"GOTO", "false">>, <<"ACT", "false">>, <<"ACT", "true">>,
   <<"EXTRACT", "false">>, <<"OBSERVE", "false">>, <<"OBSERVE", "true">>,
   <<"WAIT", "false">>, <<"NAVBACK", "false">>, <<"COMPLETE", "false">>}

\* for FOLLOW_UP_START utilityBoolean is optional
FollowUpChoices == NextStepChoices \cup {<<"OBSERVE", "absent">>}

\* the planner's answers in the specification of the whole application: one
\* step that only drives the browser, the two kinds of OBSERVE, and COMPLETE
LoopChoices ==
  {<<"ACT", "false">>, <<"OBSERVE", "false">>, <<"OBSERVE", "true">>,
   <<"COMPLETE", "false">>}

\* ------------------------------------------------------------- requests
\* the fetch calls of Home: one outstanding request per asynchronous handler
Clients == {"run", "act", "term"}

NoReq ==
  [pc |-> "none", kind |-> "NONE", sid |-> NoSession, handle |-> NoHandle,
   step |-> NoStep, previousSteps |-> <<>>, actionObject |-> 0,
   status |-> 0, result |-> NoStep, steps |-> <<>>, done |-> FALSE,
   observation |-> NoObs, extraction |-> NoData, stale |-> FALSE,
   error |-> "none", acted |-> 0, given |-> "none", ops |-> 0, llms |-> 0,
   screenshot |-> NoData, overlapped |-> FALSE, task |-> TRUE]

Request(kind, sid, step, previousSteps, actionObject) ==
  [NoReq EXCEPT !.pc = "sent", !.kind = kind, !.sid = sid, !.step = step,
                !.previousSteps = previousSteps, !.actionObject = actionObject]

VARIABLES
  activeSessions,   \* part_010: Map<string, Stagehand>, NoHandle when absent
  stagehand,        \* every Stagehand object: its state (unborn, constructed,
                    \* ready, initfailed, closing, closed), its
                    \* browserbaseSessionID and how often close() was called
  activeSessionsB,  \* part_002: the Map of the older route
  nextHandle,       \* the next Stagehand object to be constructed
  req,              \* the request of each client handler and its server handler
  steps,            \* agentStateRef.current.steps
  run,              \* the running handleSubmit / handleFollowUp
  act,              \* the running handleExecuteAction
  session,          \* useState session: id, isTerminated, isAgentComplete
  messages,         \* session.messages
  ui,               \* isLoading, isTransitioning, isSessionVisible,
                    \* pendingSession, shouldFade (InitialView), returnTimer
                    \* (the setTimeout of handleReturnToStart)
  counts,           \* tasks, follow-ups and terminations the user issued
  env,              \* the callers of ServerSpec: requests issued so far, and
                    \* per route whether only DELETE requests were issued
                    \* since a DELETE returned success with no other request
                    \* of the route in flight
  speech            \* the narration: audioQueueRef.current, isSpeaking, the
                    \* processQueue calls awaiting /api/speech and the audio
                    \* element

vars == <<activeSessions, activeSessionsB, stagehand, nextHandle, req, steps,
          run, act, session, messages, ui, counts, env, speech>>

serverVars == <<activeSessions, activeSessionsB, stagehand, nextHandle>>
clientVars == <<steps, run, act, session, messages, ui, counts, env, speech>>

\* ------------------------------------------------------- server: part_010
PostKinds ==
  {"START", "FOLLOW_UP_START", "GET_NEXT_STEP", "EXECUTE_STEP", "EXECUTE_ACTION"}

\* body.action of a POST: a case of the switch, or a value outside it
PostActions == PostKinds \cup {"UNKNOWN"}

\* NextResponse.json(body, {status}) of request r
Respond(r, status) ==
  [r EXCEPT !.pc = "resp", !.status = status, !.stale = FALSE]

\* the error classes of the taxonomy, by the await that rejected
ErrorOf(pc) ==
  CASE pc \in {"init", "initB"} -> "SessionInitError"
    [] pc = "llm" -> "PlanningError"
    [] pc \in {"entry", "cdp", "shot", "engine", "gotoB", "contentB"} ->
         "ExecutionError"
    [] OTHER -> "Error"

\* the catch blocks of POST and DELETE: status 500; error is what
\* console.error logs
Fail(r) == [Respond(r, 500) EXCEPT !.error = ErrorOf(r.pc)]

\* a browser operation is started on the Stagehand object of r; stale records
\* that close() had already resolved on that object when the operation
\* started, ops counts the operations the handler started
StartOp(r, pc) ==
  [r EXCEPT !.pc = pc, !.stale = (stagehand[r.handle].state = "closed"),
            !.ops = @ + 1]

\* a call of the reasoning service (generateObject) is started
StartLlm(r) == [r EXCEPT !.pc = "llm", !.stale = FALSE, !.llms = @ + 1]

\* a browser operation can succeed only on an object that was not closed when
\* the operation started; an engine error is possible on any object
OpOutcomes(r) == IF r.stale THEN {FALSE} ELSE {TRUE, FALSE}

\* handleExecuteStep with an ACT case that never parses the instruction
ExecuteStepEntryAlwaysText(r) ==
  CASE r.step.tool \in {"GOTO", "EXTRACT", "OBSERVE", "NAVBACK"} ->
         {StartOp(r, "engine")}
    [] r.step.tool = "ACT" -> {[StartOp(r, "engine") EXCEPT !.given = "text"]}
    [] r.step.tool = "WAIT" -> {[r EXCEPT !.pc = "timer"]}
    [] r.step.tool = "COMPLETE" -> {[Respond(r, 200) EXCEPT !.done = TRUE]}
    [] OTHER -> {Fail(r)}

\* handleExecuteStep up to its first await: the switch on step.tool; given
\* records what the ACT case passed to page.act: the ActionObject parsed from
\* step.instruction, the instruction text, or nothing because JSON.parse threw
ExecuteStepEntry(r) ==
  CASE r.step.tool \in {"GOTO", "EXTRACT", "OBSERVE", "NAVBACK"} ->
         {StartOp(r, "engine")}
    [] r.step.tool = "ACT" ->
         IF Truthy(r.step.utilityBoolean)
           \* JSON.parse(step.instruction) throws on text that is not JSON
           THEN {[StartOp(r, "engine") EXCEPT !.given = "descriptor"],
                 [Fail(r) EXCEPT !.given = "unparsed"]}
           ELSE {[StartOp(r, "engine") EXCEPT !.given = "text"]}
    [] r.step.tool = "WAIT" -> {[r EXCEPT !.pc = "timer"]}
    [] r.step.tool = "COMPLETE" -> {[Respond(r, 200) EXCEPT !.done = TRUE]}
    [] OTHER -> {Fail(r)}

\* PostEntry with EXECUTE_ACTION always acting on the first descriptor
PostEntryFirstAction(r) ==
  CASE r.kind = "START" -> {[r EXCEPT !.pc = "debug"]}
    [] r.kind \in {"FOLLOW_UP_START", "GET_NEXT_STEP"} -> {StartOp(r, "cdp")}
    [] r.kind = "EXECUTE_STEP" ->
         IF r.step = NoStep THEN {Respond(r, 400)} ELSE ExecuteStepEntry(r)
    [] r.kind = "EXECUTE_ACTION" ->
         IF r.actionObject = 0
           THEN {Respond(r, 400)}
           ELSE {[StartOp(r, "engine") EXCEPT !.acted = 1]}
    [] OTHER -> {Respond(r, 400)}

\* POST after getOrCreateStagehand returned: the switch on action, up to the
\* first await of the chosen case; a missing step or actionObject and an
\* action outside the switch are answered 400 here
PostEntry(r) ==
  CASE r.kind = "START" -> {[r EXCEPT !.pc = "debug"]}
    [] r.kind \in {"FOLLOW_UP_START", "GET_NEXT_STEP"} -> {StartOp(r, "cdp")}
    [] r.kind = "EXECUTE_STEP" ->
         IF r.step = NoStep THEN {Respond(r, 400)} ELSE ExecuteStepEntry(r)
    [] r.kind = "EXECUTE_ACTION" ->
         IF r.actionObject = 0
           THEN {Respond(r, 400)}
           ELSE {[StartOp(r, "engine") EXCEPT !.acted = r.actionObject]}
    [] OTHER -> {Respond(r, 400)}

\* POST from request.json() to the first await: 400 when sessionId or task
\* is missing; otherwise getOrCreateStagehand finds the registered object, or
\* constructs one and awaits init()
ServerReceive(c) ==
  /\ req[c].pc = "sent"
  /\ req[c].kind \in PostActions
  /\ LET sid == req[c].sid
         found == activeSessions[sid]
     IN IF sid = NoSession \/ ~req[c].task
          THEN /\ req' = [req EXCEPT ![c] = Respond(req[c], 400)]
               /\ UNCHANGED <<activeSessions, stagehand, nextHandle>>
        ELSE IF found # NoHandle
          THEN /\ \E r \in PostEntry([req[c] EXCEPT !.handle = found,
                                                       !.pc = "entry"]) :
                    req' = [req EXCEPT ![c] = r]
               /\ UNCHANGED <<activeSessions, stagehand, nextHandle>>
          ELSE /\ nextHandle <= MaxHandles
               /\ stagehand' = [stagehand EXCEPT ![nextHandle] =
                    [state |-> "constructed", sessionId |-> sid, closeCalls |-> 0]]
               /\ nextHandle' = nextHandle + 1
               /\ req' = [req EXCEPT ![c].pc = "init", ![c].handle = nextHandle]
               /\ UNCHANGED activeSessions
  /\ UNCHANGED <<activeSessionsB, clientVars>>

\* ServerInit registering the object whether or not init() resolved
ServerInitRegistersFailed(c) ==
  /\ req[c].pc = "init"
  /\ LET h == req[c].handle
         sid == req[c].sid
     IN /\ activeSessions' = [activeSessions EXCEPT ![sid] = h]
        /\ \/ /\ stagehand' = [stagehand EXCEPT ![h].state = "ready"]
              /\ \E r \in PostEntry([req[c] EXCEPT !.pc = "entry"]) :
                   req' = [req EXCEPT ![c] = r]
           \/ /\ stagehand' = [stagehand EXCEPT ![h].state = "initfailed"]
              /\ req' = [req EXCEPT ![c] = Fail(req[c])]
  /\ UNCHANGED <<activeSessionsB, nextHandle, clientVars>>

\* getOrCreateStagehand after await stagehand.init(): register and go on, or
\* the rejection reaches the catch of POST
ServerInit(c) ==
  /\ req[c].pc = "init"
  /\ LET h == req[c].handle
         sid == req[c].sid
     IN \/ /\ stagehand' = [stagehand EXCEPT ![h].state = "ready"]
           /\ activeSessions' = [activeSessions EXCEPT ![sid] = h]
           /\ \E r \in PostEntry([req[c] EXCEPT !.pc = "entry"]) :
                req' = [req EXCEPT ![c] = r]
        \/ /\ stagehand' = [stagehand EXCEPT ![h].state = "initfailed"]
           /\ req' = [req EXCEPT ![c] = Fail(req[c])]
           /\ UNCHANGED activeSessions
  /\ UNCHANGED <<activeSessionsB, nextHandle, clientVars>>

\* START after await getDebugUrl(sessionId)
ServerDebugUrl(c) ==
  /\ req[c].pc = "debug"
  /\ \/ req' = [req EXCEPT ![c] = StartLlm(req[c])]
     \/ req' = [req EXCEPT ![c] = Fail(req[c])]
  /\ UNCHANGED <<serverVars, clientVars>>

\* handleStartAction after await generateObject: build firstStep, call goto
ServerStartUrl(c) ==
  /\ req[c].pc = "llm"
  /\ req[c].kind = "START"
  /\ \/ req' = [req EXCEPT ![c] =
                  [StartOp(req[c], "engine") EXCEPT
                     !.result = BrowserStep("GOTO", "absent", 1)]]
     \/ req' = [req EXCEPT ![c] = Fail(req[c])]
  /\ UNCHANGED <<serverVars, clientVars>>

\* handleGetNextStep / handleFollowUpStart after await newCDPSession
ServerCdpSession(c) ==
  /\ req[c].pc = "cdp"
  /\ \E ok \in OpOutcomes(req[c]) :
       req' = [req EXCEPT ![c] =
                 IF ok THEN StartOp(req[c], "shot") ELSE Fail(req[c])]
  /\ UNCHANGED <<serverVars, clientVars>>

\* ... after await cdpSession.send("Page.captureScreenshot")
ServerScreenshot(c) ==
  /\ req[c].pc = "shot"
  /\ \E ok \in OpOutcomes(req[c]) :
       req' = [req EXCEPT ![c] =
                 IF ok THEN StartLlm(req[c]) ELSE Fail(req[c])]
  /\ UNCHANGED <<serverVars, clientVars>>

\* the "Previous steps taken" part of handleGetNextStep's prompt: the steps
\* in order, numbered by position, the observation shown for an OBSERVE
\* step and the extraction for an EXTRACT step when the step carries one
PromptSteps(previousSteps) ==
  [i \in 1..Len(previousSteps) |->
     [index |-> i,
      tool |-> previousSteps[i].tool,
      observation |-> IF previousSteps[i].tool = "OBSERVE"
                        THEN previousSteps[i].observation ELSE NoObs,
      extraction |-> IF previousSteps[i].tool = "EXTRACT"
                       THEN previousSteps[i].extraction ELSE NoData]]

\* stepNumber of the step handleGetNextStep returns
NextStepNumber(previousSteps) == Len(previousSteps) + 1

\* ServerGetNextStep where a rejected generateObject evicts the session
ServerGetNextStepEvicts(c, choices) ==
  /\ req[c].pc = "llm"
  /\ req[c].kind = "GET_NEXT_STEP"
  /\ \/ /\ \E ch \in choices :
             LET nextStep == BrowserStep(ch[1], ch[2],
                                         NextStepNumber(req[c].previousSteps))
             IN req' = [req EXCEPT ![c] =
                          [Respond(req[c], 200) EXCEPT
                             !.result = nextStep,
                             !.steps = Append(req[c].previousSteps, nextStep),
                             !.done = (nextStep.tool = "COMPLETE")]]
        /\ UNCHANGED activeSessions
     \/ /\ req' = [req EXCEPT ![c] = Fail(req[c])]
        /\ activeSessions' = [activeSessions EXCEPT ![req[c].sid] = NoHandle]
  /\ UNCHANGED <<activeSessionsB, stagehand, nextHandle, clientVars>>

\* handleGetNextStep after await generateObject: the planned step, or a
\* rejection (service error, object outside the schema)
ServerGetNextStep(c, choices) ==
  /\ req[c].pc = "llm"
  /\ req[c].kind = "GET_NEXT_STEP"
  /\ \/ \E ch \in choices :
          LET nextStep == BrowserStep(ch[1], ch[2],
                                      NextStepNumber(req[c].previousSteps))
          IN req' = [req EXCEPT ![c] =
                       [Respond(req[c], 200) EXCEPT
                          !.result = nextStep,
                          !.steps = Append(req[c].previousSteps, nextStep),
                          !.done = (nextStep.tool = "COMPLETE")]]
     \/ req' = [req EXCEPT ![c] = Fail(req[c])]
  /\ UNCHANGED <<serverVars, clientVars>>

\* a handleFollowUpStart that numbers its step 2
ServerFollowUpStartNumbersOn(c, choices) ==
  /\ req[c].pc = "llm"
  /\ req[c].kind = "FOLLOW_UP_START"
  /\ \/ \E ch \in choices :
          LET firstStep == BrowserStep(ch[1], ch[2], 2)
          IN req' = [req EXCEPT ![c] =
                       [Respond(req[c], 200) EXCEPT
                          !.result = firstStep, !.steps = <<firstStep>>]]
     \/ req' = [req EXCEPT ![c] = Fail(req[c])]
  /\ UNCHANGED <<serverVars, clientVars>>

\* handleFollowUpStart after await generateObject
ServerFollowUpStart(c, choices) ==
  /\ req[c].pc = "llm"
  /\ req[c].kind = "FOLLOW_UP_START"
  /\ \/ \E ch \in choices :
          LET firstStep == BrowserStep(ch[1], ch[2], 1)
          IN req' = [req EXCEPT ![c] =
                       [Respond(req[c], 200) EXCEPT
                          !.result = firstStep, !.steps = <<firstStep>>]]
     \/ req' = [req EXCEPT ![c] = Fail(req[c])]
  /\ UNCHANGED <<serverVars, clientVars>>

\* a response of handleExecuteStep that reports done after an EXTRACT
ExecuteStepResultExtractDone(r, k) ==
  CASE r.step.tool = "EXTRACT" ->
         [Respond(r, 200) EXCEPT !.extraction = 1, !.done = TRUE]
    [] r.step.tool = "OBSERVE" ->
         [Respond(r, 200) EXCEPT !.observation = k,
                                 !.done = Truthy(r.step.utilityBoolean)]
    [] OTHER -> Respond(r, 200)

\* what handleExecuteStep returns once the browser operation of step resolved;
\* k is the number of ActionDescriptors observe() returned
ExecuteStepResult(r, k) ==
  CASE r.step.tool = "EXTRACT" -> [Respond(r, 200) EXCEPT !.extraction = 1]
    [] r.step.tool = "OBSERVE" ->
         [Respond(r, 200) EXCEPT !.observation = k,
                                 !.done = Truthy(r.step.utilityBoolean)]
    [] OTHER -> Respond(r, 200)

\* ServerEngine closing and evicting the session when the operation rejected
ServerEngineDropsSession(c, observed) ==
  /\ req[c].pc = "engine"
  /\ \E ok \in OpOutcomes(req[c]) :
       IF ~ok
         THEN /\ req' = [req EXCEPT ![c] = Fail(req[c])]
              /\ stagehand' = [stagehand EXCEPT ![req[c].handle].state = "closed"]
              /\ activeSessions' = [activeSessions EXCEPT ![req[c].sid] = NoHandle]
         ELSE /\ UNCHANGED <<activeSessions, stagehand>>
              /\ CASE req[c].kind = "START" ->
                     req' = [req EXCEPT ![c] =
                               [Respond(req[c], 200) EXCEPT
                                  !.steps = <<req[c].result>>]]
                [] req[c].kind = "EXECUTE_ACTION" ->
                     req' = [req EXCEPT ![c] = Respond(req[c], 200)]
                [] OTHER ->
                     \E k \in (IF req[c].step.tool = "OBSERVE"
                                 THEN observed ELSE {0}) :
                       req' = [req EXCEPT ![c] = ExecuteStepResult(req[c], k)]
  /\ UNCHANGED <<activeSessionsB, nextHandle, clientVars>>

\* the browser operation of START (goto), EXECUTE_STEP or EXECUTE_ACTION (act)
\* resolved or rejected
ServerEngine(c, observed) ==
  /\ req[c].pc = "engine"
  /\ \E ok \in OpOutcomes(req[c]) :
       IF ~ok
         THEN req' = [req EXCEPT ![c] = Fail(req[c])]
         ELSE CASE req[c].kind = "START" ->
                     req' = [req EXCEPT ![c] =
                               [Respond(req[c], 200) EXCEPT
                                  !.steps = <<req[c].result>>]]
                [] req[c].kind = "EXECUTE_ACTION" ->
                     req' = [req EXCEPT ![c] = Respond(req[c], 200)]
                [] OTHER ->
                     \E k \in (IF req[c].step.tool = "OBSERVE"
                                 THEN observed ELSE {0}) :
                       req' = [req EXCEPT ![c] = ExecuteStepResult(req[c], k)]
  /\ UNCHANGED <<serverVars, clientVars>>

\* WAIT: the setTimeout promise resolved
ServerTimer(c) ==
  /\ req[c].pc = "timer"
  /\ req' = [req EXCEPT ![c] = Respond(req[c], 200)]
  /\ UNCHANGED <<serverVars, clientVars>>

\* stagehand.close() is called on object h
CloseCalled(h) ==
  [stagehand EXCEPT ![h].closeCalls = @ + 1,
                    ![h].state = IF @ = "ready" THEN "closing" ELSE @]

\* DELETE from request.json() to await stagehand.close()
ServerDelete(c) ==
  /\ req[c].pc = "sent"
  /\ req[c].kind = "DELETE"
  /\ LET h == activeSessions[req[c].sid]
     IN IF h # NoHandle
          THEN /\ stagehand' = CloseCalled(h)
               /\ req' = [req EXCEPT ![c].pc = "close", ![c].handle = h]
          ELSE /\ req' = [req EXCEPT ![c] = Respond(req[c], 200)]
               /\ UNCHANGED stagehand
  /\ UNCHANGED <<activeSessions, activeSessionsB, nextHandle, clientVars>>

\* ServerClose without activeSessions.delete
ServerCloseKeepsEntry(c) ==
  /\ req[c].pc = "close"
  /\ \/ /\ stagehand' = [stagehand EXCEPT ![req[c].handle].state = "closed"]
        /\ req' = [req EXCEPT ![c] = Respond(req[c], 200)]
     \/ /\ req' = [req EXCEPT ![c] = Fail(req[c])]
        /\ UNCHANGED stagehand
  /\ UNCHANGED <<activeSessions, activeSessionsB, nextHandle, clientVars>>

\* DELETE after await stagehand.close(): evict the id, or the catch block
ServerClose(c) ==
  /\ req[c].pc = "close"
  /\ \/ /\ stagehand' = [stagehand EXCEPT ![req[c].handle].state = "closed"]
        /\ activeSessions' = [activeSessions EXCEPT ![req[c].sid] = NoHandle]
        /\ req' = [req EXCEPT ![c] = Respond(req[c], 200)]
     \/ /\ req' = [req EXCEPT ![c] = Fail(req[c])]
        /\ UNCHANGED <<activeSessions, stagehand>>
  /\ UNCHANGED <<activeSessionsB, nextHandle, clientVars>>

\* ------------------------------------------------------- server: part_002
\* POST from request.json() to the first await: the registered object and
\* goto(url), or a new object and init()
ServerBReceive(c) ==
  /\ req[c].pc = "sent"
  /\ req[c].kind = "NAVIGATE_B"
  /\ LET sid == req[c].sid
         found == activeSessionsB[sid]
     IN IF found # NoHandle
          THEN /\ req' = [req EXCEPT ![c] =
                            StartOp([req[c] EXCEPT !.handle = found], "gotoB")]
               /\ UNCHANGED <<stagehand, nextHandle>>
          ELSE /\ nextHandle <= MaxHandles
               /\ stagehand' = [stagehand EXCEPT ![nextHandle] =
                    [state |-> "constructed", sessionId |-> sid, closeCalls |-> 0]]
               /\ nextHandle' = nextHandle + 1
               /\ req' = [req EXCEPT ![c].pc = "initB", ![c].handle = nextHandle]
  /\ UNCHANGED <<activeSessions, activeSessionsB, clientVars>>

\* POST after await stagehand.init()
ServerBInit(c) ==
  /\ req[c].pc = "initB"
  /\ LET h == req[c].handle
     IN \/ /\ stagehand' = [stagehand EXCEPT ![h].state = "ready"]
           /\ activeSessionsB' = [activeSessionsB EXCEPT ![req[c].sid] = h]
           /\ req' = [req EXCEPT ![c] = StartOp(req[c], "gotoB")]
        \/ /\ stagehand' = [stagehand EXCEPT ![h].state = "initfailed"]
           /\ req' = [req EXCEPT ![c] = Fail(req[c])]
           /\ UNCHANGED activeSessionsB
  /\ UNCHANGED <<activeSessions, nextHandle, clientVars>>

\* POST after await stagehand.page.goto(url)
ServerBGoto(c) ==
  /\ req[c].pc = "gotoB"
  /\ \E ok \in OpOutcomes(req[c]) :
       req' = [req EXCEPT ![c] =
                 IF ok THEN StartOp(req[c], "contentB") ELSE Fail(req[c])]
  /\ UNCHANGED <<serverVars, clientVars>>

\* POST after await stagehand.page.content()
ServerBContent(c) ==
  /\ req[c].pc = "contentB"
  /\ \E ok \in OpOutcomes(req[c]) :
       req' = [req EXCEPT ![c] =
                 IF ok THEN [req[c] EXCEPT !.pc = "debugB", !.stale = FALSE]
                       ELSE Fail(req[c])]
  /\ UNCHANGED <<serverVars, clientVars>>

\* POST after await bb.sessions.debug(sessionId)
ServerBDebugUrl(c) ==
  /\ req[c].pc = "debugB"
  /\ \/ req' = [req EXCEPT ![c] = Respond(req[c], 200)]
     \/ req' = [req EXCEPT ![c] = Fail(req[c])]
  /\ UNCHANGED <<serverVars, clientVars>>

\* DELETE from request.json() to await newCDPSession
ServerBDelete(c) ==
  /\ req[c].pc = "sent"
  /\ req[c].kind = "DELETE_B"
  /\ LET h == activeSessionsB[req[c].sid]
     IN req' = [req EXCEPT ![c] =
                  IF h # NoHandle
                    THEN StartOp([req[c] EXCEPT !.handle = h], "cdpB")
                    ELSE Respond(req[c], 200)]
  /\ UNCHANGED <<serverVars, clientVars>>

\* ServerBCdpSession with a rejection that reaches the outer catch
ServerBCdpSessionFatal(c) ==
  /\ req[c].pc = "cdpB"
  /\ \E ok \in OpOutcomes(req[c]) :
       req' = [req EXCEPT ![c] =
                 IF ok THEN StartOp(req[c], "shotB") ELSE Fail(req[c])]
  /\ UNCHANGED <<serverVars, clientVars>>

\* DELETE after await newCDPSession: the screenshot is requested; a rejection
\* is caught and logged, and close() is called
ServerBCdpSession(c) ==
  /\ req[c].pc = "cdpB"
  /\ \E ok \in OpOutcomes(req[c]) :
       IF ok
         THEN /\ req' = [req EXCEPT ![c] = StartOp(req[c], "shotB")]
              /\ UNCHANGED stagehand
         ELSE /\ req' = [req EXCEPT ![c].pc = "closeB", ![c].stale = FALSE]
              /\ stagehand' = CloseCalled(req[c].handle)
  /\ UNCHANGED <<activeSessions, activeSessionsB, nextHandle, clientVars>>

\* DELETE after await cdpSession.send("Page.captureScreenshot"): data is kept
\* when it is a non-empty string; a rejection is caught and logged; close()
\* is called
ServerBScreenshot(c) ==
  /\ req[c].pc = "shotB"
  /\ \E ok \in OpOutcomes(req[c]) : \E data \in {NoData, 1} :
       /\ (~ok => data = NoData)
       /\ req' = [req EXCEPT ![c].pc = "closeB", ![c].stale = FALSE,
                             ![c].screenshot = data]
  /\ stagehand' = CloseCalled(req[c].handle)
  /\ UNCHANGED <<activeSessions, activeSessionsB, nextHandle, clientVars>>

\* DELETE after await stagehand.close(): evict the id and answer with the
\* screenshot, or the catch block
ServerBClose(c) ==
  /\ req[c].pc = "closeB"
  /\ \/ /\ stagehand' = [stagehand EXCEPT ![req[c].handle].state = "closed"]
        /\ activeSessionsB' = [activeSessionsB EXCEPT ![req[c].sid] = NoHandle]
        /\ req' = [req EXCEPT ![c] = Respond(req[c], 200)]
     \/ /\ req' = [req EXCEPT ![c] =
                     [Fail(req[c]) EXCEPT !.screenshot = NoData]]
        /\ UNCHANGED <<activeSessionsB, stagehand>>
  /\ UNCHANGED <<activeSessions, nextHandle, clientVars>>

\* ------------------------------------------------ client: part_001, Home
\* Message (src/app/types/message.ts) as far as the handlers set it
Message(role, tool, n) ==
  [role |-> role, tool |-> tool, stepNumber |-> n,
   observation |-> NoObs, extraction |-> NoData]

\* the user's task, a chosen action or a reported text: no tool, no number
TextMessage(role) == Message(role, "NONE", 0)

\* a step shown as an agent message
StepMessage(step) == Message("agent", step.tool, step.stepNumber)

NoSessionState ==
  [id |-> NoSession, isTerminated |-> FALSE, isAgentComplete |-> FALSE]

NoRun ==
  [pc |-> "idle", kind |-> "none", sid |-> NoSession, outcome |-> "NONE",
   no |-> 0, pendingSession |-> NoSession, nextStep |-> NoStep, plans |-> 0,
   error |-> "none"]

\* acted, ops and llms are what the server did for the chosen action
\* submitted is the text of the last form submission that reached the
\* action choice
NoAct ==
  [pc |-> "idle", chosen |-> 0, outcome |-> "NONE",
   acted |-> 0, ops |-> 0, llms |-> 0, submitted |-> <<>>]

\* ChatInterface: the effect on [messages] that sets isWaitingForAction
IsWaitingForAction ==
  /\ Len(messages) > 0
  /\ messages[Len(messages)].role = "agent"
  /\ messages[Len(messages)].tool = "OBSERVE"
  /\ messages[Len(messages)].observation # NoObs

\* ChatInterface: availableActions.length
AvailableActions ==
  IF IsWaitingForAction THEN messages[Len(messages)].observation ELSE 0

\* SessionView renders when isVisible && debugUrl; debugUrl is set with id
SessionViewShown == ui.isSessionVisible /\ session.id # NoSession

\* ChatInterface renders its form only while the session is not terminated
ChatFormShown == SessionViewShown /\ ~session.isTerminated

\* a history whose last entry is left without the result of its execution
ReplaceLastDropsResult(history, step) == history

\* agentStateRef.current.steps with its last entry replaced
ReplaceLast(history, step) ==
  [i \in 1..Len(history) |-> IF i = Len(history) THEN step ELSE history[i]]

\* session.messages with observation / extraction put on its last entry
AttachResult(msgs, tool, observation, extraction) ==
  IF Len(msgs) = 0 THEN msgs
  ELSE IF tool = "OBSERVE" /\ observation # NoObs
    THEN [msgs EXCEPT ![Len(msgs)].observation = observation]
  ELSE IF tool = "EXTRACT" /\ extraction # NoData
    THEN [msgs EXCEPT ![Len(msgs)].extraction = extraction]
  ELSE msgs

\* ClientStepNumber counting from zero
ClientStepNumberFromZero(history) == Len(history)

\* stepNumber the client gives the step it appends
ClientStepNumber(history) == Len(history) + 1

\* RunFailed sending the rejected request once more
RunFailedRetries ==
  /\ req' = [req EXCEPT !["run"] =
               Request(req["run"].kind, req["run"].sid, req["run"].step,
                       req["run"].previousSteps, 0)]
  /\ UNCHANGED <<run, session, ui, steps, messages, act, counts, env, speech>>

\* the catch and finally blocks of handleSubmit and handleFollowUp
RunFailed ==
  /\ run' = [run EXCEPT !.pc = "idle", !.outcome = "FAILED",
                        !.error = req["run"].error]
  /\ session' = [session EXCEPT !.isAgentComplete = TRUE]
  /\ ui' = [ui EXCEPT !.isLoading = FALSE]
  /\ req' = [req EXCEPT !["run"] = NoReq]
  /\ UNCHANGED <<steps, messages, act, counts, env, speech>>

\* RunFinished sending EXECUTE_STEP for the last step of the history
RunFinishedExecutes(outcome, history, msgs) ==
  /\ run' = [run EXCEPT !.pc = "idle", !.outcome = outcome]
  /\ steps' = history
  /\ req' = [req EXCEPT !["run"] =
               Request("EXECUTE_STEP", run.sid, history[Len(history)], <<>>, 0)]
  /\ session' = [session EXCEPT !.isAgentComplete = TRUE]
  /\ messages' = msgs
  /\ ui' = [ui EXCEPT !.isSessionVisible = (@ \/ run.kind = "initial"),
                      !.isLoading = FALSE]
  /\ UNCHANGED <<act, counts, env, speech>>

\* RunFinished for a loop that stops without having reached an end state
RunFinishedNowhere(outcome, history, msgs) ==
  /\ run' = [run EXCEPT !.pc = "idle"]
  /\ steps' = history
  /\ req' = [req EXCEPT !["run"] = NoReq]
  /\ IF run.kind = "initial" /\ run.pendingSession # NoSession
       THEN /\ session' = [id |-> run.pendingSession, isTerminated |-> FALSE,
                           isAgentComplete |-> TRUE]
            /\ messages' = <<TextMessage("user")>>
            /\ ui' = [ui EXCEPT !.pendingSession = NoSession,
                                !.isSessionVisible = TRUE, !.isLoading = FALSE]
       ELSE /\ session' = [session EXCEPT !.isAgentComplete = TRUE]
            /\ messages' = msgs
            /\ ui' = [ui EXCEPT !.isSessionVisible =
                                  (@ \/ run.kind = "initial"),
                                !.isLoading = FALSE]
  /\ UNCHANGED <<act, counts, env, speech>>

\* the code after the while loop, and finally; msgs and history are
\* session.messages and the step history as the loop left them
RunFinished(outcome, history, msgs) ==
  /\ run' = [run EXCEPT !.pc = "idle", !.outcome = outcome]
  /\ steps' = history
  /\ req' = [req EXCEPT !["run"] = NoReq]
  /\ IF run.kind = "initial" /\ run.pendingSession # NoSession
       \* pendingSession as handleSubmit's closure captured it
       THEN /\ session' = [id |-> run.pendingSession, isTerminated |-> FALSE,
                           isAgentComplete |-> TRUE]
            /\ messages' = <<TextMessage("user")>>
            /\ ui' = [ui EXCEPT !.pendingSession = NoSession,
                                !.isSessionVisible = TRUE, !.isLoading = FALSE]
       ELSE /\ session' = [session EXCEPT !.isAgentComplete = TRUE]
            /\ messages' = msgs
            /\ ui' = [ui EXCEPT !.isSessionVisible =
                                  (@ \/ run.kind = "initial"),
                                !.isLoading = FALSE]
  /\ UNCHANGED <<act, counts, env, speech>>

\* a fetch of GET_NEXT_STEP that passes only the most recent step
SendGetNextStepLastOnly(history, msgs) ==
  /\ run.plans < MaxPlan
  /\ run' = [run EXCEPT !.pc = "plan", !.plans = @ + 1]
  /\ steps' = history
  /\ messages' = msgs
  /\ req' = [req EXCEPT !["run"] =
               Request("GET_NEXT_STEP", run.sid, NoStep,
                       SubSeq(history, Len(history), Len(history)), 0)]

\* the top of the while loop: fetch GET_NEXT_STEP with the whole history
SendGetNextStep(history, msgs) ==
  /\ run.plans < MaxPlan
  /\ run' = [run EXCEPT !.pc = "plan", !.plans = @ + 1]
  /\ steps' = history
  /\ messages' = msgs
  /\ req' = [req EXCEPT !["run"] =
               Request("GET_NEXT_STEP", run.sid, NoStep, history, 0)]

\* handleSubmit up to the fetch of /api/session
HandleSubmit ==
  /\ ~ui.shouldFade
  /\ ~ui.isLoading
  /\ counts.sessions < MaxSessions
  /\ counts' = [counts EXCEPT !.sessions = @ + 1]
  /\ ui' = [ui EXCEPT !.isLoading = TRUE]
  /\ session' = [session EXCEPT !.isAgentComplete = FALSE]
  /\ run' = [NoRun EXCEPT !.pc = "session", !.kind = "initial",
                          !.no = run.no + 1,
                          !.pendingSession = ui.pendingSession]
  /\ req' = [req EXCEPT !["run"] = Request("SESSION", NoSession, NoStep, <<>>, 0)]
  /\ UNCHANGED <<serverVars, steps, act, messages, env, speech>>

\* POST /api/session: a new session id, or an error status
CreateSession ==
  /\ req["run"].pc = "sent"
  /\ req["run"].kind = "SESSION"
  /\ \/ req' = [req EXCEPT !["run"] =
                  [Respond(req["run"], 200) EXCEPT !.sid = counts.sessions]]
     \/ req' = [req EXCEPT !["run"] = Fail(req["run"])]
  /\ UNCHANGED <<serverVars, clientVars>>

\* handleSubmit from the session response to the fetch of START
SubmitSessionCreated ==
  /\ run.pc = "session"
  /\ req["run"].pc = "resp"
  /\ IF req["run"].status # 200
       THEN RunFailed
       ELSE /\ run' = [run EXCEPT !.pc = "start", !.sid = req["run"].sid]
            /\ req' = [req EXCEPT !["run"] =
                         Request("START", req["run"].sid, NoStep, <<>>, 0)]
            /\ UNCHANGED <<steps, act, session, messages, ui, counts, env, speech>>
  /\ UNCHANGED serverVars

\* a handleSubmit that enters its loop whatever START answered
SubmitStartedAnyway ==
  /\ run.pc = "start"
  /\ req["run"].pc = "resp"
  /\ SendGetNextStep(req["run"].steps, messages)
  /\ ui' = [ui EXCEPT !.pendingSession = run.sid,
                      !.isTransitioning = TRUE, !.shouldFade = FALSE]
  /\ UNCHANGED <<act, session, counts, env, speech>>
  /\ UNCHANGED serverVars

\* handleSubmit from the START response to the first GET_NEXT_STEP
SubmitStarted ==
  /\ run.pc = "start"
  /\ req["run"].pc = "resp"
  /\ IF req["run"].status # 200
       THEN RunFailed
       ELSE /\ SendGetNextStep(req["run"].steps, messages)
            /\ ui' = [ui EXCEPT !.pendingSession = run.sid,
                                !.isTransitioning = TRUE, !.shouldFade = FALSE]
            /\ UNCHANGED <<act, session, counts, env, speech>>
  /\ UNCHANGED serverVars

\* session.messages as handleSubmit rebuilds it from the step history
SubmitMessages(history) ==
  <<TextMessage("user")>> \o [i \in 1..Len(history) |-> StepMessage(history[i])]

\* a loop body that sends the first step of the history to EXECUTE_STEP
\* instead of the step GET_NEXT_STEP returned
RunPlannedExecutesFirst ==
  /\ run.pc = "plan"
  /\ req["run"].pc = "resp"
  /\ IF req["run"].status # 200
       THEN RunFailed
       ELSE LET nextStep == [req["run"].result EXCEPT
                               !.stepNumber = ClientStepNumber(steps)]
                history == Append(steps, nextStep)
                msgs == IF run.kind = "initial"
                          THEN SubmitMessages(history)
                          ELSE Append(messages, StepMessage(nextStep))
            IN IF nextStep.tool = "COMPLETE"
                 THEN RunFinished("COMPLETE", history, msgs)
                 ELSE /\ run' = [run EXCEPT !.pc = "exec", !.nextStep = nextStep]
                      /\ steps' = history
                      /\ messages' = msgs
                      /\ req' = [req EXCEPT !["run"] =
                                   Request("EXECUTE_STEP", run.sid,
                                           steps[1], <<>>, 0)]
                      /\ UNCHANGED <<act, session, ui, counts, env, speech>>
  /\ UNCHANGED serverVars

\* the loop body from the GET_NEXT_STEP response to the fetch of EXECUTE_STEP
RunPlanned ==
  /\ run.pc = "plan"
  /\ req["run"].pc = "resp"
  /\ IF req["run"].status # 200
       THEN RunFailed
       ELSE LET nextStep == [req["run"].result EXCEPT
                               !.stepNumber = ClientStepNumber(steps)]
                history == Append(steps, nextStep)
                msgs == IF run.kind = "initial"
                          THEN SubmitMessages(history)
                          ELSE Append(messages, StepMessage(nextStep))
            IN IF nextStep.tool = "COMPLETE"
                 THEN RunFinished("COMPLETE", history, msgs)
                 ELSE /\ run' = [run EXCEPT !.pc = "exec", !.nextStep = nextStep]
                      /\ steps' = history
                      /\ messages' = msgs
                      /\ req' = [req EXCEPT !["run"] =
                                   Request("EXECUTE_STEP", run.sid,
                                           req["run"].result, <<>>, 0)]
                      /\ UNCHANGED <<act, session, ui, counts, env, speech>>
  /\ UNCHANGED serverVars

\* a loop that also stops after an executed EXTRACT step
LoopBreaksOnExtract(kind, nextStep, done) ==
  \/ nextStep.tool = "EXTRACT"
  \/ IF kind = "initial"
       THEN (nextStep.tool = "OBSERVE" /\ Truthy(nextStep.utilityBoolean))
            \/ done
       ELSE done

\* whether the loop stops after an executed step
LoopBreaks(kind, nextStep, done) ==
  IF kind = "initial"
    THEN (nextStep.tool = "OBSERVE" /\ Truthy(nextStep.utilityBoolean)) \/ done
    ELSE done

\* the state a run that stopped after step ends in
StopOutcome(step) ==
  IF step.tool = "OBSERVE" /\ Truthy(step.utilityBoolean)
    THEN "SUSPENDED" ELSE "COMPLETE"

\* the loop body from the EXECUTE_STEP response to the next GET_NEXT_STEP
RunExecuted ==
  /\ run.pc = "exec"
  /\ req["run"].pc = "resp"
  /\ IF req["run"].status # 200
       THEN RunFailed
       ELSE LET updatedStep == [run.nextStep EXCEPT
                                  !.observation = req["run"].observation,
                                  !.extraction = req["run"].extraction]
                history == ReplaceLast(steps, updatedStep)
                msgs == AttachResult(messages, run.nextStep.tool,
                                     req["run"].observation,
                                     req["run"].extraction)
            IN IF LoopBreaks(run.kind, run.nextStep, req["run"].done)
                 THEN RunFinished(StopOutcome(run.nextStep), history, msgs)
                 ELSE /\ SendGetNextStep(history, msgs)
                      /\ UNCHANGED <<act, session, ui, counts, env, speech>>
  /\ UNCHANGED serverVars

\* a follow-up that can be submitted while a run is still under way
HandleFollowUpUngated ==
  /\ ChatFormShown
  /\ ~IsWaitingForAction
  /\ counts.followUps < MaxFollowUps
  /\ counts' = [counts EXCEPT !.followUps = @ + 1]
  /\ messages' = Append(messages, TextMessage("user"))
  /\ ui' = [ui EXCEPT !.isLoading = TRUE]
  /\ steps' = <<>>
  /\ session' = [session EXCEPT !.isAgentComplete = FALSE]
  /\ run' = [NoRun EXCEPT !.pc = "fstart", !.kind = "followup",
                          !.no = run.no + 1, !.sid = session.id]
  /\ req' = [req EXCEPT !["run"] =
               Request("FOLLOW_UP_START", session.id, NoStep, <<>>, 0)]
  /\ UNCHANGED <<serverVars, act, env, speech>>

\* ChatInterface.handleSubmit (a task typed while no action choice is
\* pending) and handleFollowUp up to the fetch of FOLLOW_UP_START
HandleFollowUp ==
  /\ ChatFormShown
  /\ ~ui.isLoading
  /\ session.isAgentComplete
  /\ ~IsWaitingForAction
  /\ counts.followUps < MaxFollowUps
  /\ counts' = [counts EXCEPT !.followUps = @ + 1]
  /\ messages' = Append(messages, TextMessage("user"))
  /\ ui' = [ui EXCEPT !.isLoading = TRUE]
  /\ steps' = <<>>
  /\ session' = [session EXCEPT !.isAgentComplete = FALSE]
  /\ run' = [NoRun EXCEPT !.pc = "fstart", !.kind = "followup",
                          !.no = run.no + 1, !.sid = session.id]
  /\ req' = [req EXCEPT !["run"] =
               Request("FOLLOW_UP_START", session.id, NoStep, <<>>, 0)]
  /\ UNCHANGED <<serverVars, act, env, speech>>

\* handleFollowUp from the FOLLOW_UP_START response to the next fetch
FollowUpStarted ==
  /\ run.pc = "fstart"
  /\ req["run"].pc = "resp"
  /\ IF req["run"].status # 200
       THEN RunFailed
       ELSE LET result == req["run"].result
                msgs == Append(messages, StepMessage(result))
            IN IF result.tool # "COMPLETE"
                 THEN /\ run' = [run EXCEPT !.pc = "fexec", !.nextStep = result]
                      /\ steps' = <<result>>
                      /\ messages' = msgs
                      /\ req' = [req EXCEPT !["run"] =
                                   Request("EXECUTE_STEP", run.sid, result, <<>>, 0)]
                      /\ UNCHANGED <<act, session, ui, counts, env, speech>>
                 ELSE /\ SendGetNextStep(<<result>>, msgs)
                      /\ UNCHANGED <<act, session, ui, counts, env, speech>>
  /\ UNCHANGED serverVars

\* handleFollowUp from the response to the first step's EXECUTE_STEP on
FollowUpFirstExecuted ==
  /\ run.pc = "fexec"
  /\ req["run"].pc = "resp"
  /\ IF req["run"].status # 200
       THEN RunFailed
       ELSE LET updatedStep == [run.nextStep EXCEPT
                                  !.observation = req["run"].observation,
                                  !.extraction = req["run"].extraction]
                msgs == AttachResult(messages, run.nextStep.tool,
                                     req["run"].observation,
                                     req["run"].extraction)
            IN IF req["run"].done
                 \* return: only finally runs after it
                 THEN /\ run' = [run EXCEPT !.pc = "idle",
                                            !.outcome = StopOutcome(run.nextStep)]
                      /\ steps' = <<updatedStep>>
                      /\ messages' = msgs
                      /\ session' = [session EXCEPT !.isAgentComplete =
                           (@ \/ StopOutcome(run.nextStep) = "SUSPENDED")]
                      /\ ui' = [ui EXCEPT !.isLoading = FALSE]
                      /\ req' = [req EXCEPT !["run"] = NoReq]
                      /\ UNCHANGED <<act, counts, env, speech>>
                 ELSE /\ SendGetNextStep(<<updatedStep>>, msgs)
                      /\ UNCHANGED <<act, session, ui, counts, env, speech>>
  /\ UNCHANGED serverVars

\* ChatInterface.handleSubmit (a number typed while an action choice is
\* pending), handleActionSelect and handleExecuteAction up to its fetch
\* the characters a user types into the chat form: the digits up to one past
\* the longest candidate list, a letter, a blank and a sign
DigitChars == <<"0", "1", "2", "3", "4", "5", "6", "7", "8", "9">>

MaxText == 2

Chars ==
  {DigitChars[d + 1] : d \in 0 .. (IF MaxActions + 1 < 9 THEN MaxActions + 1 ELSE 9)}
    \cup {"a", " ", "-"}

Texts == UNION {[1 .. n -> Chars] : n \in 1 .. MaxText}

IsDigit(ch) == \E d \in 1 .. 10 : DigitChars[d] = ch

DigitValue(ch) == (CHOOSE d \in 1 .. 10 : DigitChars[d] = ch) - 1

RECURSIVE TrimStart(_)
TrimStart(text) ==
  IF text # <<>> /\ Head(text) = " " THEN TrimStart(Tail(text)) ELSE text

RECURSIVE TrimEnd(_)
TrimEnd(text) ==
  IF text # <<>> /\ text[Len(text)] = " "
    THEN TrimEnd(SubSeq(text, 1, Len(text) - 1))
    ELSE text

\* String.prototype.trim
Trim(text) == TrimEnd(TrimStart(text))

\* the value of the longest run of digits text starts with, after value
RECURSIVE LeadingDigits(_, _)
LeadingDigits(text, value) ==
  IF text # <<>> /\ IsDigit(Head(text))
    THEN LeadingDigits(Tail(text), 10 * value + DigitValue(Head(text)))
    ELSE value

\* parseInt(text): blanks are skipped, a sign is read, then the digits that
\* follow, whatever comes after them; NaN when no digit follows
ParseInt(text) ==
  LET stripped == TrimStart(text)
      negative == stripped # <<>> /\ Head(stripped) = "-"
      digits == IF negative THEN Tail(stripped) ELSE stripped IN
  IF digits = <<>> \/ ~IsDigit(Head(digits))
    THEN [nan |-> TRUE, value |-> 0]
    ELSE [nan |-> FALSE,
          value |-> IF negative THEN 0 - LeadingDigits(digits, 0)
                                ELSE LeadingDigits(digits, 0)]

\* ChatInterface.handleSubmit while isWaitingForAction, with
\* handleActionSelect and Home.handleExecuteAction up to its fetch
ChatHandleSubmit(texts) ==
  /\ ChatFormShown
  /\ ~ui.isLoading
  /\ IsWaitingForAction
  /\ act.pc = "idle"
  /\ \E inputValue \in texts :
       /\ Trim(inputValue) # <<>>
       /\ LET parsed == ParseInt(Trim(inputValue))
              actionIndex == parsed.value - 1 IN
          IF ~parsed.nan /\ actionIndex >= 0 /\ actionIndex < AvailableActions
            THEN /\ act' = [NoAct EXCEPT !.pc = "wait",
                                         !.chosen = actionIndex,
                                         !.submitted = inputValue]
                 /\ req' = [req EXCEPT !["act"] =
                              Request("EXECUTE_ACTION", session.id, NoStep,
                                      <<>>, actionIndex + 1)]
                 /\ messages' = Append(messages, TextMessage("user"))
            ELSE /\ act' = [act EXCEPT !.submitted = inputValue]
                 /\ UNCHANGED <<req, messages>>
  /\ UNCHANGED <<serverVars, steps, run, session, ui, counts, env, speech>>

\* a user who types the number of a displayed action
ActionNumbers == {<<DigitChars[n + 1]>> : n \in 1 .. MaxActions}

HandleExecuteAction == ChatHandleSubmit(ActionNumbers)

ActionExecuted ==
  /\ act.pc = "wait"
  /\ req["act"].pc = "resp"
  /\ act' = [act EXCEPT !.pc = "idle",
                        !.outcome = IF req["act"].status = 200
                                      THEN "COMPLETE" ELSE "FAILED",
                        !.acted = req["act"].acted,
                        !.ops = req["act"].ops,
                        !.llms = req["act"].llms]
  /\ messages' = Append(messages, TextMessage("agent"))
  /\ session' = [session EXCEPT !.isAgentComplete = TRUE]
  /\ req' = [req EXCEPT !["act"] = NoReq]
  /\ UNCHANGED <<serverVars, steps, run, ui, counts, env, speech>>

\* BrowserView's button while the session is not terminated:
\* handleTerminateSession up to its fetch
HandleTerminateSession ==
  /\ SessionViewShown
  /\ ~session.isTerminated
  /\ req["term"].pc = "none"
  /\ counts.terminates < MaxTerminate
  /\ counts' = [counts EXCEPT !.terminates = @ + 1]
  /\ req' = [req EXCEPT !["term"] = Request("DELETE", session.id, NoStep, <<>>, 0)]
  /\ UNCHANGED <<serverVars, steps, run, act, session, messages, ui, env, speech>>

\* handleTerminateSession from the response on
SessionTerminated ==
  /\ req["term"].pc = "resp"
  /\ session' = [session EXCEPT !.isTerminated =
                   (@ \/ req["term"].status = 200)]
  /\ req' = [req EXCEPT !["term"] = NoReq]
  /\ UNCHANGED <<serverVars, steps, run, act, messages, ui, counts, env, speech>>

\* DotBackground finished its transition: InitialView fades and
\* handleTransitionComplete shows the pending session
HandleTransitionComplete ==
  /\ ui.isTransitioning
  /\ IF ui.pendingSession # NoSession
       THEN /\ session' = [id |-> ui.pendingSession, isTerminated |-> FALSE,
                           isAgentComplete |-> FALSE]
            /\ messages' = <<TextMessage("user")>>
            /\ ui' = [ui EXCEPT !.pendingSession = NoSession,
                                !.isSessionVisible = TRUE,
                                !.isTransitioning = FALSE, !.shouldFade = TRUE]
       ELSE /\ ui' = [ui EXCEPT !.isTransitioning = FALSE, !.shouldFade = TRUE]
            /\ UNCHANGED <<session, messages>>
  /\ UNCHANGED <<serverVars, req, steps, run, act, counts, env, speech>>

\* BrowserView's button once the session is terminated: handleReturnToStart
\* up to setTimeout
HandleReturnToStart ==
  /\ SessionViewShown
  /\ session.isTerminated
  /\ ~ui.returnTimer
  /\ ui' = [ui EXCEPT !.isTransitioning = TRUE, !.shouldFade = FALSE,
                      !.returnTimer = TRUE]
  /\ UNCHANGED <<serverVars, req, steps, run, act, session, messages, counts,
               env, speech>>

\* the setTimeout callback of handleReturnToStart
ReturnToStartTimer ==
  /\ ui.returnTimer
  /\ session' = NoSessionState
  /\ messages' = <<>>
  /\ ui' = [ui EXCEPT !.isSessionVisible = FALSE, !.isTransitioning = FALSE,
                      !.returnTimer = FALSE]
  /\ UNCHANGED <<serverVars, req, steps, run, act, counts, env, speech>>

\* ------------------------------------------------------------- narration
\* narration texts one behaviour queues, numbered in the order of the
\* generateSpeech calls
MaxNarrations == 3
\* handlers (handleSubmit, handleFollowUp, handleExecuteAction) one
\* behaviour starts
MaxHandlers == 2

Narrations == 1 .. MaxNarrations

\* queue is audioQueueRef.current and isSpeaking the useState; captured is
\* the isSpeaking of the render whose generateSpeech the running handler
\* holds; fetching counts, per text, the processQueue calls awaiting
\* /api/speech; audio is the element: the text of its src and whether it
\* plays, onended being set with src. The rest records what happened:
\* played, the texts play() was called for, in order; failed, the texts
\* whose generation or playback failed; removed, the texts shift() took off
\* the queue
NoSpeech ==
  [queue |-> <<>>, isSpeaking |-> FALSE, captured |-> FALSE,
   fetching |-> [t \in Narrations |-> 0],
   audio |-> [text |-> 0, playing |-> FALSE],
   next |-> 1, handlers |-> 0,
   played |-> <<>>, failed |-> {}, removed |-> {}]

\* processQueue up to its first await
ProcessQueue(s) ==
  IF Len(s.queue) = 0
    THEN [s EXCEPT !.isSpeaking = FALSE]
    ELSE [s EXCEPT !.fetching[s.queue[1]] = @ + 1]

\* audioQueueRef.current.shift()
Shift(s) ==
  IF Len(s.queue) = 0
    THEN s
    ELSE [s EXCEPT !.queue = Tail(s.queue),
                   !.removed = @ \cup {s.queue[1]}]

\* the two handlers that remove the failed item and try the next one
ShiftAndContinue(s) ==
  LET shifted == Shift(s) IN
  IF Len(shifted.queue) > 0
    THEN ProcessQueue(shifted)
    ELSE [shifted EXCEPT !.isSpeaking = FALSE]

\* a handler starts in the current render: handleSubmit and handleFollowUp
\* empty the queue, handleExecuteAction does not
SpeechHandlerStart ==
  /\ speech.handlers < MaxHandlers
  /\ \E clears \in BOOLEAN :
       speech' = [speech EXCEPT !.handlers = @ + 1,
                                !.captured = speech.isSpeaking,
                                !.queue = IF clears THEN <<>> ELSE @]
  /\ UNCHANGED <<serverVars, req, steps, run, act, session, messages, ui,
                 counts, env>>

\* generateSpeech(text), called by the running handler
GenerateSpeech ==
  /\ speech.handlers > 0
  /\ speech.next <= MaxNarrations
  /\ LET queued == [speech EXCEPT !.queue = Append(@, speech.next),
                                  !.next = @ + 1] IN
     speech' = IF speech.captured THEN queued ELSE ProcessQueue(queued)
  /\ UNCHANGED <<serverVars, req, steps, run, act, session, messages, ui,
                 counts, env>>

\* /api/speech answers with audio data: processQueue sets src and onended
\* and calls play()
SpeechResponse ==
  /\ \E text \in Narrations :
       /\ speech.fetching[text] > 0
       /\ speech' = [speech EXCEPT !.fetching[text] = @ - 1,
                                   !.audio = [text |-> text, playing |-> TRUE],
                                   !.isSpeaking = TRUE,
                                   !.played = Append(@, text)]
  /\ UNCHANGED <<serverVars, req, steps, run, act, session, messages, ui,
                 counts, env>>

\* /api/speech fails or answers without audio data: the catch of processQueue
SpeechError ==
  /\ \E text \in Narrations :
       /\ speech.fetching[text] > 0
       /\ speech' = ShiftAndContinue(
                      [speech EXCEPT !.fetching[text] = @ - 1,
                                     !.failed = @ \cup {text}])
  /\ UNCHANGED <<serverVars, req, steps, run, act, session, messages, ui,
                 counts, env>>

\* the audio element's onended
OnEnded ==
  /\ speech.audio.playing
  /\ speech' = ProcessQueue(Shift([speech EXCEPT !.audio.playing = FALSE]))
  /\ UNCHANGED <<serverVars, req, steps, run, act, session, messages, ui,
                 counts, env>>

\* play() rejects: its catch
PlayCatch ==
  /\ speech.audio.playing
  /\ speech' = ShiftAndContinue(
                 [speech EXCEPT !.audio.playing = FALSE,
                                !.failed = @ \cup {speech.audio.text}])
  /\ UNCHANGED <<serverVars, req, steps, run, act, session, messages, ui,
                 counts, env>>

\* processQueue chains alive: awaiting /api/speech, or waiting in onended
ActiveChains ==
  LET RECURSIVE Sum(_)
      Sum(n) == IF n = 0 THEN 0 ELSE speech.fetching[n] + Sum(n - 1)
  IN Sum(MaxNarrations) + (IF speech.audio.playing THEN 1 ELSE 0)

SpeechNext ==
  \/ SpeechHandlerStart
  \/ GenerateSpeech
  \/ SpeechResponse
  \/ SpeechError
  \/ OnEnded
  \/ PlayCatch

\* --------------------------------------------------------- specification
Init ==
  /\ activeSessions = [s \in Sessions |-> NoHandle]
  /\ activeSessionsB = [s \in Sessions |-> NoHandle]
  /\ stagehand = [h \in Handles |->
                    [state |-> "unborn", sessionId |-> NoSession, closeCalls |-> 0]]
  /\ nextHandle = 1
  /\ req = [c \in Clients |-> NoReq]
  /\ steps = <<>>
  /\ run = NoRun
  /\ act = NoAct
  /\ session = NoSessionState
  /\ messages = <<>>
  /\ ui = [isLoading |-> FALSE, isTransitioning |-> FALSE,
           isSessionVisible |-> FALSE, pendingSession |-> NoSession,
           shouldFade |-> FALSE, returnTimer |-> FALSE]
  /\ counts = [sessions |-> 0, followUps |-> 0, terminates |-> 0]
  /\ env = [calls |-> 0, row |-> [k \in {"DELETE", "DELETE_B"} |-> FALSE]]
  /\ speech = NoSpeech

Next ==
  \/ HandleSubmit
  \/ CreateSession
  \/ SubmitSessionCreated
  \/ SubmitStarted
  \/ RunPlanned
  \/ RunExecuted
  \/ HandleFollowUp
  \/ FollowUpStarted
  \/ FollowUpFirstExecuted
  \/ HandleExecuteAction
  \/ ActionExecuted
  \/ HandleTerminateSession
  \/ SessionTerminated
  \/ HandleTransitionComplete
  \/ HandleReturnToStart
  \/ ReturnToStartTimer
  \/ \E c \in Clients : ServerReceive(c)
  \/ \E c \in Clients : ServerInit(c)
  \/ \E c \in Clients : ServerDebugUrl(c)
  \/ \E c \in Clients : ServerStartUrl(c)
  \/ \E c \in Clients : ServerCdpSession(c)
  \/ \E c \in Clients : ServerScreenshot(c)
  \/ \E c \in Clients : ServerGetNextStep(c, LoopChoices)
  \/ \E c \in Clients : ServerFollowUpStart(c, LoopChoices)
  \/ \E c \in Clients : ServerEngine(c, {MaxActions})
  \/ \E c \in Clients : ServerDelete(c)
  \/ \E c \in Clients : ServerClose(c)

Spec == Init /\ [][Next]_vars

\* the narration alone, with generateSpeech called at any time
SpeechSpec == Init /\ [][SpeechNext]_vars

\* ------------------------------------------- a user who lets the run work
\* Home with a user who submits a task and a follow-up and touches nothing
\* else, against the route with every answer the planner's schema allows
LoopNext ==
  \/ HandleSubmit
  \/ CreateSession
  \/ SubmitSessionCreated
  \/ SubmitStarted
  \/ RunPlanned
  \/ RunExecuted
  \/ HandleFollowUp
  \/ FollowUpStarted
  \/ FollowUpFirstExecuted
  \/ HandleTransitionComplete
  \/ ServerReceive("run")
  \/ ServerInit("run")
  \/ ServerDebugUrl("run")
  \/ ServerStartUrl("run")
  \/ ServerCdpSession("run")
  \/ ServerScreenshot("run")
  \/ ServerGetNextStep("run", NextStepChoices)
  \/ ServerFollowUpStart("run", FollowUpChoices)
  \/ ServerEngine("run", 0 .. MaxActions)
  \/ ServerTimer("run")

LoopSpec == Init /\ [][LoopNext]_vars

\* ------------------------------------------ a user who answers the choice
\* Home with a user who submits a task and then types anything into the chat
\* form whenever the action choice is displayed
ChoiceNext ==
  \/ HandleSubmit
  \/ CreateSession
  \/ SubmitSessionCreated
  \/ SubmitStarted
  \/ RunPlanned
  \/ RunExecuted
  \/ HandleTransitionComplete
  \/ ChatHandleSubmit(Texts)
  \/ ActionExecuted
  \/ \E c \in Clients : ServerReceive(c)
  \/ \E c \in Clients : ServerInit(c)
  \/ \E c \in Clients : ServerDebugUrl(c)
  \/ \E c \in Clients : ServerStartUrl(c)
  \/ \E c \in Clients : ServerCdpSession(c)
  \/ \E c \in Clients : ServerScreenshot(c)
  \/ \E c \in Clients : ServerGetNextStep(c, LoopChoices)
  \/ \E c \in Clients : ServerEngine(c, 0 .. MaxActions)

ChoiceSpec == Init /\ [][ChoiceNext]_vars

\* ----------------------------------------- the routes and any HTTP callers
\* requests of arbitrary callers in one behaviour
MaxCalls == 3

\* the session id the callers use
ServerSession == CHOOSE s \in Sessions : \A t \in Sessions : s <= t

\* the route of a request, named by the DELETE kind that releases what the
\* route registers
RouteOf(kind) ==
  IF kind \in {"NAVIGATE_B", "DELETE_B"} THEN "DELETE_B" ELSE "DELETE"

\* the registry of a route
Registry(route) ==
  IF route = "DELETE_B" THEN activeSessionsB ELSE activeSessions

\* every step a caller may send with EXECUTE_STEP
ExecSteps == {BrowserStep(ch[1], ch[2], 1) : ch \in FollowUpChoices}

\* the well-formed requests of the two routes
Calls ==
  {Request(k, ServerSession, NoStep, <<>>, 0) :
     k \in {"START", "FOLLOW_UP_START", "GET_NEXT_STEP", "DELETE",
            "NAVIGATE_B", "DELETE_B"}}
  \cup {Request("EXECUTE_STEP", ServerSession, st, <<>>, 0) : st \in ExecSteps}
  \cup {Request("EXECUTE_ACTION", ServerSession, NoStep, <<>>, 1)}

\* c has a request under way that is not a DELETE of the route
Acquiring(c, route) ==
  /\ req[c].pc # "none"
  /\ RouteOf(req[c].kind) = route
  /\ req[c].kind # route

\* the connections callers use; a request takes the first free one
Callers == {"run", "act"}

FirstFree(c) ==
  /\ req[c].pc = "none"
  /\ (c = "act" => req["run"].pc # "none")

\* a caller sends a request
Call(c) ==
  /\ FirstFree(c)
  /\ env.calls < MaxCalls
  /\ \E r \in Calls :
       LET route == RouteOf(r.kind)
       IN IF r.kind = route
            THEN /\ req' = [req EXCEPT ![c] =
                     [r EXCEPT !.overlapped =
                        \E c2 \in Clients : Acquiring(c2, route)]]
                 /\ env' = [env EXCEPT !.calls = @ + 1]
            ELSE /\ req' = [c2 \in Clients |->
                     IF c2 = c THEN r
                     ELSE IF req[c2].kind = route
                       THEN [req[c2] EXCEPT !.overlapped = TRUE]
                       ELSE req[c2]]
                 /\ env' = [env EXCEPT !.calls = @ + 1, !.row[route] = FALSE]
  /\ UNCHANGED <<serverVars, steps, run, act, session, messages, ui, counts,
               speech>>

\* a caller receives its response
Return(c) ==
  /\ req[c].pc = "resp"
  /\ req' = [req EXCEPT ![c] = NoReq]
  /\ LET route == RouteOf(req[c].kind)
     IN env' = [env EXCEPT !.row[route] =
          IF /\ req[c].kind = route
             /\ req[c].status = 200
             /\ ~req[c].overlapped
             /\ \A c2 \in Clients \ {c} :
                  req[c2].pc = "none" \/ RouteOf(req[c2].kind) # route
            THEN TRUE ELSE @]
  /\ UNCHANGED <<serverVars, steps, run, act, session, messages, ui, counts,
               speech>>

ServerNext ==
  \/ \E c \in Callers : Call(c)
  \/ \E c \in Callers : Return(c)
  \/ \E c \in Clients : ServerReceive(c)
  \/ \E c \in Clients : ServerInit(c)
  \/ \E c \in Clients : ServerDebugUrl(c)
  \/ \E c \in Clients : ServerStartUrl(c)
  \/ \E c \in Clients : ServerCdpSession(c)
  \/ \E c \in Clients : ServerScreenshot(c)
  \/ \E c \in Clients : ServerGetNextStep(c, NextStepChoices)
  \/ \E c \in Clients : ServerFollowUpStart(c, FollowUpChoices)
  \/ \E c \in Clients : ServerEngine(c, 0..MaxActions)
  \/ \E c \in Clients : ServerTimer(c)
  \/ \E c \in Clients : ServerDelete(c)
  \/ \E c \in Clients : ServerClose(c)
  \/ \E c \in Clients : ServerBReceive(c)
  \/ \E c \in Clients : ServerBInit(c)
  \/ \E c \in Clients : ServerBGoto(c)
  \/ \E c \in Clients : ServerBContent(c)
  \/ \E c \in Clients : ServerBDebugUrl(c)
  \/ \E c \in Clients : ServerBDelete(c)
  \/ \E c \in Clients : ServerBCdpSession(c)
  \/ \E c \in Clients : ServerBScreenshot(c)
  \/ \E c \in Clients : ServerBClose(c)

ServerSpec == Init /\ [][ServerNext]_vars

\* ------------------------------------------- callers of route part_010
\* requests POST answers with 400: sessionId missing, task missing, step
\* missing, actionObject missing, action outside the switch
BadCalls ==
  {Request("START", NoSession, NoStep, <<>>, 0),
   [Request("START", ServerSession, NoStep, <<>>, 0) EXCEPT !.task = FALSE],
   Request("EXECUTE_STEP", ServerSession, NoStep, <<>>, 0),
   Request("EXECUTE_ACTION", ServerSession, NoStep, <<>>, 0),
   Request("UNKNOWN", ServerSession, NoStep, <<>>, 0)}

\* the requests of a caller of route part_010 who also sends malformed ones
RejectCalls ==
  BadCalls \cup {Request("START", ServerSession, NoStep, <<>>, 0),
                 Request("DELETE", ServerSession, NoStep, <<>>, 0)}

\* a caller sends one of RejectCalls
BadCall(c) ==
  /\ FirstFree(c)
  /\ env.calls < MaxCalls
  /\ \E r \in RejectCalls :
       IF r.kind = "DELETE"
         THEN /\ req' = [req EXCEPT ![c] =
                  [r EXCEPT !.overlapped =
                     \E c2 \in Clients : Acquiring(c2, "DELETE")]]
              /\ env' = [env EXCEPT !.calls = @ + 1]
         ELSE /\ req' = [c2 \in Clients |->
                  IF c2 = c THEN r
                  ELSE IF req[c2].kind = "DELETE"
                    THEN [req[c2] EXCEPT !.overlapped = TRUE]
                    ELSE req[c2]]
              /\ env' = [env EXCEPT !.calls = @ + 1, !.row["DELETE"] = FALSE]
  /\ UNCHANGED <<serverVars, steps, run, act, session, messages, ui, counts,
               speech>>

RejectNext ==
  \/ \E c \in Callers : BadCall(c)
  \/ \E c \in Callers : Return(c)
  \/ \E c \in Clients : ServerReceive(c)
  \/ \E c \in Clients : ServerInit(c)
  \/ \E c \in Clients : ServerDebugUrl(c)
  \/ \E c \in Clients : ServerStartUrl(c)
  \/ \E c \in Clients : ServerEngine(c, 0 .. MaxActions)
  \/ \E c \in Clients : ServerDelete(c)
  \/ \E c \in Clients : ServerClose(c)

RejectSpec == Init /\ [][RejectNext]_vars

\* ----------------------------------------------------------------- claims
Terminal == {"COMPLETE", "FAILED", "SUSPENDED"}

\* a handler of the server is inside an Action Executor call: the start
\* navigation, EXECUTE_STEP or EXECUTE_ACTION, from its first await to its
\* response
InExecutor(c) ==
  /\ req[c].pc \in {"engine", "timer"}
  /\ req[c].kind \in {"START", "EXECUTE_STEP", "EXECUTE_ACTION"}

C3_SessionExclusivity ==
  \A c1, c2 \in Clients :
    (c1 # c2 /\ InExecutor(c1) /\ InExecutor(c2)) => req[c1].sid # req[c2].sid

\* C4 as the specification states it: the chosen action always ends in
\* COMPLETE after exactly one ACT.
C4_AlwaysComplete ==
  act.outcome # "NONE" => (act.outcome = "COMPLETE" /\ act.ops = 1)

\* C4, amended: when an OBSERVE step with waitForUserChoice has been executed
\* the run ends SUSPENDED with the step's descriptors in its history; the
\* chosen action makes no planning call and at most one ACT, which is on the
\* chosen descriptor, and it ends in COMPLETE exactly when that ACT was made
\* and succeeded.
C4_ResumeChosenAction ==
  /\ [][(/\ run.pc \in {"exec", "fexec"}
          /\ run'.pc # run.pc
          /\ req["run"].status = 200
          /\ run.nextStep.tool = "OBSERVE"
          /\ Truthy(run.nextStep.utilityBoolean))
         => (/\ run'.pc = "idle"
             /\ run'.outcome = "SUSPENDED"
             /\ Len(steps') > 0
             /\ steps'[Len(steps')].observation = req["run"].observation)]_vars
  /\ [](act.outcome # "NONE" =>
          /\ act.llms = 0
          /\ act.ops <= 1
          /\ act.ops = 1 => act.acted = act.chosen + 1
          /\ act.outcome = "COMPLETE" => act.ops = 1)
  /\ [](\A c \in Clients :
          (req[c].kind = "EXECUTE_ACTION" /\ req[c].pc = "resp") =>
             (req[c].status = 200 <=> (req[c].ops = 1 /\ req[c].error = "none")))

\* the second descriptor was chosen after a suspended run and the ACT on it
\* succeeded
C4_Witness ==
  /\ run.outcome = "SUSPENDED"
  /\ act.outcome = "COMPLETE"
  /\ act.chosen = 1
  /\ act.acted = 2

\* the maximum number of planning calls a configuration of the loop would
\* allow: any limit below what the model lets the planner answer
StepLimit == MaxPlan - 1

\* C5: a run makes no more planning calls than the configured maximum; at
\* the maximum it is FAILED.
C5_StepLimit == run.plans <= StepLimit

\* C6: once terminate has returned, the run on that session is in a terminal
\* state and no Stagehand object of that session is registered or alive.
C6_TerminateReleases ==
  session.isTerminated =>
    /\ run.sid = session.id => run.pc = "idle"
    /\ activeSessions[session.id] = NoHandle
    /\ \A h \in Handles :
         stagehand[h].sessionId = session.id =>
           stagehand[h].state \notin {"constructed", "ready", "closing"}

\* C7: terminating a session is idempotent, on either route.  A DELETE that
\* finds no Stagehand object under the id answers 200 without a screenshot and
\* changes neither registry nor any object; and once a DELETE has answered
\* 200 with no acquiring request of its route overlapping it, the id stays
\* unregistered for as long as only DELETEs follow.
C7_TerminateIdempotent ==
  /\ [](\A route \in {"DELETE", "DELETE_B"} :
          env.row[route] => Registry(route)[ServerSession] = NoHandle)
  /\ [][\A c \in Clients :
          (/\ req[c].pc = "sent"
           /\ req[c].kind \in {"DELETE", "DELETE_B"}
           /\ Registry(req[c].kind)[req[c].sid] = NoHandle
           /\ req'[c].pc # "sent")
          => /\ req'[c].pc = "resp"
             /\ req'[c].status = 200
             /\ req'[c].error = "none"
             /\ req'[c].screenshot = NoData
             /\ UNCHANGED serverVars]_vars

\* a second DELETE in a row has answered 200 after the first closed the
\* session's object
C7_Witness ==
  /\ env.row["DELETE"]
  /\ req["run"].pc = "resp" /\ req["run"].status = 200
  /\ req["run"].kind = "DELETE" /\ req["run"].handle = NoHandle
  /\ stagehand[1].state = "closed" /\ stagehand[1].closeCalls = 1

\* C8: a rejected planNext call changes neither the registry nor any
\* Stagehand object and the run reacts by going to FAILED without a further
\* request; as long as nobody terminates the session its object stays
\* registered and ready.
C8_PlannerFailureContained ==
  /\ [](\A s \in Sessions :
          (run.outcome = "FAILED" /\ run.error = "PlanningError" /\ run.sid = s
             /\ counts.terminates = 0)
            => (/\ activeSessions[s] # NoHandle
                /\ stagehand[activeSessions[s]].state = "ready"))
  /\ [][/\ \A c \in Clients :
             (req[c].pc = "llm" /\ req'[c].pc = "resp" /\ req'[c].status = 500)
               => UNCHANGED <<activeSessions, stagehand>>
        /\ (req["run"].pc = "resp" /\ req["run"].error = "PlanningError"
              /\ run' # run)
             => (/\ run'.outcome = "FAILED"
                 /\ req'["run"] = NoReq
                 /\ req'["term"] = req["term"]
                 /\ UNCHANGED <<activeSessions, stagehand>>)
       ]_vars

\* a follow-up run ended FAILED on a rejected planNext call after its first
\* step was executed; the object the first run registered is still registered
\* and ready
C8_Witness ==
  /\ run.kind = "followup"
  /\ run.outcome = "FAILED"
  /\ run.error = "PlanningError"
  /\ Len(steps) >= 1
  /\ counts.terminates = 0
  /\ activeSessions[run.sid] = 1
  /\ stagehand[1].state = "ready"

\* C9: at no time are two Stagehand objects being initialized for one
\* session id.
C9_SingleInit ==
  \A c1, c2 \in Clients :
    (c1 # c2 /\ req[c1].pc = "init" /\ req[c2].pc = "init")
      => req[c1].sid # req[c2].sid

\* C10: no browser operation is started on a Stagehand object whose close()
\* has resolved, and no such object is registered.
C10_NoUseAfterClose ==
  /\ \A c \in Clients : ~req[c].stale
  /\ \A s \in Sessions :
       activeSessions[s] # NoHandle =>
         stagehand[activeSessions[s]].state # "closed"

\* C11: getOrCreateStagehand hands a request the object registered under its
\* id and initializes nothing, or else constructs one object for the id and
\* awaits its init(); when init() resolves the object is registered under the
\* id, and when it rejects the request answers 500 with the init error, no
\* other object is constructed and the registry is unchanged.  No registered
\* object is uninitialized.
C11_Acquire ==
  /\ [](\A s \in Sessions :
          activeSessions[s] # NoHandle =>
            stagehand[activeSessions[s]].state
              \notin {"unborn", "constructed", "initfailed"})
  /\ [][\A c \in Clients :
          /\ (req[c].pc = "sent" /\ req[c].kind \in PostKinds
                /\ req'[c].pc # "sent")
             => IF activeSessions[req[c].sid] # NoHandle
                  THEN /\ req'[c].handle = activeSessions[req[c].sid]
                       /\ req'[c].pc # "init"
                       /\ UNCHANGED <<activeSessions, stagehand, nextHandle>>
                  ELSE /\ req'[c].pc = "init"
                       /\ req'[c].handle = nextHandle
                       /\ nextHandle' = nextHandle + 1
                       /\ stagehand' = [stagehand EXCEPT ![nextHandle] =
                            [state |-> "constructed", sessionId |-> req[c].sid,
                             closeCalls |-> 0]]
                       /\ UNCHANGED activeSessions
          /\ (req[c].pc = "init" /\ req'[c].pc # "init")
             => \/ /\ stagehand'[req[c].handle].state = "ready"
                   /\ activeSessions' =
                        [activeSessions EXCEPT ![req[c].sid] = req[c].handle]
                   /\ req'[c].handle = req[c].handle
                   /\ req'[c].error # "SessionInitError"
                   /\ nextHandle' = nextHandle
                \/ /\ stagehand'[req[c].handle].state = "initfailed"
                   /\ req'[c].pc = "resp"
                   /\ req'[c].status = 500
                   /\ req'[c].error = "SessionInitError"
                   /\ UNCHANGED <<activeSessions, nextHandle>>]_vars

\* init() of the first object rejected: the request has answered 500 and the
\* registry has no entry for its id
C11_Witness ==
  \E c \in Clients :
    /\ req[c].pc = "resp" /\ req[c].status = 500
    /\ req[c].error = "SessionInitError"
    /\ req[c].handle = 1
    /\ stagehand[1].state = "initfailed"
    /\ activeSessions[req[c].sid] = NoHandle
    /\ nextHandle = 2

\* C12: once an initial run has failed in START after its Stagehand object was
\* acquired (the live-view lookup, generateObject or the first goto rejected),
\* the registry has no entry for the run's session id.
C12_StartFailureCleansUp ==
  \A s \in Sessions :
    (/\ run.kind = "initial"
     /\ run.sid = s
     /\ run.outcome = "FAILED"
     /\ run.plans = 0
     /\ run.error \in {"Error", "PlanningError", "ExecutionError"})
    => activeSessions[s] = NoHandle

\* C13: when handleExecuteStep fails for a request that got the registered
\* object (JSON.parse of a structured ACT threw, or the browser operation
\* rejected), the answer is 500 and the step changes neither the registry nor
\* any Stagehand object; a request received afterwards gets the object that
\* is registered under its id.
C13_StepFailureKeepsSession ==
  [][\A c \in Clients :
       /\ (/\ req[c].kind = "EXECUTE_STEP"
           /\ req[c].pc \in {"sent", "engine", "timer"}
           /\ req'[c].pc = "resp"
           /\ req'[c].status # 200)
          => /\ req'[c].status = 500
             /\ req'[c].error = "ExecutionError"
             /\ UNCHANGED <<activeSessions, stagehand, nextHandle>>
       /\ (/\ req[c].pc = "sent"
           /\ req[c].kind \in PostKinds
           /\ req'[c].pc # "sent"
           /\ activeSessions[req[c].sid] # NoHandle)
          => req'[c].handle = activeSessions[req[c].sid]]_vars

\* an EXTRACT step has failed on the registered object, which is ready and
\* in use by the operation of another request
C13_Witness ==
  /\ req["run"].kind = "EXECUTE_STEP"
  /\ req["run"].step.tool = "EXTRACT"
  /\ req["run"].pc = "resp"
  /\ req["run"].status = 500
  /\ req["run"].error = "ExecutionError"
  /\ activeSessions[req["run"].sid] = req["run"].handle
  /\ stagehand[req["run"].handle].state = "ready"
  /\ req["act"].pc = "engine"
  /\ req["act"].handle = req["run"].handle

\* a result of its execution is recorded on step
HasResult(step) == step.observation # NoObs \/ step.extraction # NoData

\* C14: when the execution of a step has failed the run goes to FAILED with
\* no further request, and the failed step, the last of the history, carries
\* a recorded result.
C14_FailureRecorded ==
  [][(/\ run.pc \in {"exec", "fexec"}
      /\ req["run"].pc = "resp"
      /\ req["run"].status # 200
      /\ run' # run)
     => (/\ run'.pc = "idle"
         /\ run'.outcome = "FAILED"
         /\ req'["run"] = NoReq
         /\ Len(steps') > 0
         /\ steps'[Len(steps')].tool = run.nextStep.tool
         /\ HasResult(steps'[Len(steps')]))]_vars

\* C15: a request makes at most one generateObject call; when START,
\* GET_NEXT_STEP or FOLLOW_UP_START answers with a planning failure the run
\* goes to FAILED and sends nothing more, and a run that is not under way has
\* no request in flight.
C15_PlanningFailureNotRetried ==
  /\ [](\A c \in Clients : req[c].llms <= 1)
  /\ [](run.pc = "idle" => req["run"] = NoReq)
  /\ [][(/\ run.pc \in {"start", "plan", "fstart"}
         /\ req["run"].pc = "resp"
         /\ req["run"].error = "PlanningError"
         /\ req'["run"] # req["run"])
        => (/\ run'.pc = "idle"
            /\ run'.outcome = "FAILED"
            /\ run'.error = "PlanningError"
            /\ req'["run"] = NoReq
            /\ steps' = steps)]_vars

\* generateObject rejected in FOLLOW_UP_START: the follow-up run is FAILED
\* with an empty history
C15_Witness ==
  /\ run.kind = "followup"
  /\ run.outcome = "FAILED"
  /\ run.error = "PlanningError"
  /\ run.plans = 0
  /\ Len(steps) = 0

\* C16: when init() rejects in the first request of a run (START or
\* FOLLOW_UP_START), the run is FAILED with the init error and the step
\* history is what it was before the run was started: unchanged by the
\* failure, and for the first follow-up run of a session still holding the
\* steps of the run before it.
C16_InitFailureKeepsHistory ==
  [][(/\ run.pc \in {"start", "fstart"}
      /\ req["run"].pc = "resp"
      /\ req["run"].error = "SessionInitError"
      /\ run' # run)
     => (/\ run'.outcome = "FAILED"
         /\ run'.error = "SessionInitError"
         /\ steps' = steps
         /\ (run.kind = "followup" /\ counts.followUps = 1)
              => Len(steps') > 0)]_vars

\* C17: in the DELETE of part_002 a rejection of newCDPSession or of
\* captureScreenshot never ends the request: close() is called on the object
\* all the same, and when close() resolves the object is closed, the id is
\* evicted and the answer is 200 with the screenshot that was kept, null when
\* the capture failed.
C17_ScreenshotFailureSwallowed ==
  [][\A c \in Clients :
       /\ (req[c].pc \in {"cdpB", "shotB"} /\ req'[c].pc # req[c].pc)
          => /\ req'[c].pc \in {"shotB", "closeB"}
             /\ req'[c].pc = "closeB" =>
                  /\ stagehand'[req[c].handle].closeCalls =
                       stagehand[req[c].handle].closeCalls + 1
                  /\ activeSessionsB' = activeSessionsB
             /\ (req[c].pc = "cdpB" /\ req'[c].pc = "closeB") =>
                  req'[c].screenshot = NoData
       /\ (req[c].pc = "closeB" /\ req'[c].pc = "resp" /\ req'[c].status = 200)
          => /\ req'[c].screenshot = req[c].screenshot
             /\ req'[c].error = "none"
             /\ stagehand'[req[c].handle].state = "closed"
             /\ activeSessionsB'[req[c].sid] = NoHandle]_vars

\* newCDPSession rejected, and the DELETE answered 200 without a screenshot
\* after closing and evicting the object
C17_Witness ==
  \E c \in Clients :
    /\ req[c].kind = "DELETE_B"
    /\ req[c].pc = "resp"
    /\ req[c].status = 200
    /\ req[c].ops = 1
    /\ req[c].screenshot = NoData
    /\ req[c].handle # NoHandle
    /\ stagehand[req[c].handle].state = "closed"
    /\ activeSessionsB[req[c].sid] = NoHandle

\* m is the agent message of a step
IsStepMessage(m) == m.role = "agent" /\ m.tool # "NONE"

\* the agent messages of steps in msgs, in order
StepMessages(msgs) == SelectSeq(msgs, IsStepMessage)

\* C18: when the first run of a session has ended in COMPLETE,
\* session.messages holds exactly one agent message per step of the history,
\* the start step included, in step order, whether or not
\* handleTransitionComplete has been called by then.
C18_OneMessagePerStep ==
  (/\ run.kind = "initial"
   /\ run.outcome = "COMPLETE"
   /\ Len(steps) > 0)
  => (/\ Len(StepMessages(messages)) = Len(steps)
      /\ \A i \in 1..Len(steps) :
           /\ StepMessages(messages)[i].tool = steps[i].tool
           /\ StepMessages(messages)[i].stepNumber = steps[i].stepNumber)

\* C19: when the first GET_NEXT_STEP of an initial run, sent with the start
\* step as the whole history, answers COMPLETE, the run ends COMPLETE with the
\* history <<start step, COMPLETE step>> numbered 1 and 2 and sends nothing
\* more; an initial run never sends EXECUTE_STEP for a COMPLETE step.
C19_ImmediateComplete ==
  /\ []((run.kind = "initial" /\ req["run"].kind = "EXECUTE_STEP")
          => req["run"].step.tool # "COMPLETE")
  /\ [][(/\ run.kind = "initial"
         /\ run.pc = "plan"
         /\ Len(steps) = 1
         /\ req["run"].pc = "resp"
         /\ req["run"].status = 200
         /\ req["run"].result.tool = "COMPLETE"
         /\ run' # run)
        => (/\ run'.pc = "idle"
            /\ run'.outcome = "COMPLETE"
            /\ req'["run"] = NoReq
            /\ Len(steps') = 2
            /\ steps'[1] = steps[1]
            /\ steps'[1].tool = "GOTO"
            /\ steps'[2].tool = "COMPLETE"
            /\ steps'[2].stepNumber = 2
            /\ ~HasResult(steps'[2]))]_vars

\* the first run of a session ended COMPLETE after one planning call, with
\* one browser operation (the start navigation) made on the session's object
C19_Witness ==
  /\ run.kind = "initial"
  /\ run.outcome = "COMPLETE"
  /\ run.plans = 1
  /\ Len(steps) = 2
  /\ steps[2].tool = "COMPLETE"
  /\ steps[1].tool = "GOTO"
  /\ req["run"] = NoReq

\* C20: when GET_NEXT_STEP or FOLLOW_UP_START answers with a COMPLETE step
\* the run ends COMPLETE at once and sends no further request.
C20_CompleteStopsRun ==
  [][(/\ run.pc \in {"plan", "fstart"}
      /\ req["run"].pc = "resp"
      /\ req["run"].status = 200
      /\ req["run"].result.tool = "COMPLETE"
      /\ run' # run)
     => (/\ run'.pc = "idle"
         /\ run'.outcome = "COMPLETE"
         /\ req'["run"] = NoReq)]_vars

\* C21: when the response of a successful EXECUTE_STEP is handled, the run
\* ends SUSPENDED exactly when done is true and the step is an OBSERVE with
\* a true utilityBoolean, ends COMPLETE exactly when done is true otherwise,
\* and in every other case sends the next GET_NEXT_STEP; GOTO, ACT, EXTRACT,
\* WAIT, NAVBACK and OBSERVE with a false flag always lead to GET_NEXT_STEP.
C21_AfterExecution ==
  [][(/\ run.pc \in {"exec", "fexec"}
      /\ req["run"].pc = "resp"
      /\ req["run"].status = 200
      /\ run' # run)
     => LET step == run.nextStep
            done == req["run"].done
            waits == step.tool = "OBSERVE" /\ Truthy(step.utilityBoolean)
            planning == /\ run'.pc = "plan"
                        /\ req'["run"].kind = "GET_NEXT_STEP"
                        /\ req'["run"].pc = "sent"
        IN /\ (run'.pc = "idle" /\ run'.outcome = "SUSPENDED")
                <=> (done /\ waits)
           /\ (run'.pc = "idle" /\ run'.outcome = "COMPLETE")
                <=> (done /\ ~waits)
           /\ planning <=> ~done
           /\ (step.tool \in {"GOTO", "ACT", "EXTRACT", "WAIT", "NAVBACK"}
               \/ (step.tool = "OBSERVE" /\ ~Truthy(step.utilityBoolean)))
                => planning]_vars

\* the second GET_NEXT_STEP of a run has been sent after the NAVBACK step
\* the first one planned was executed
C21_Witness ==
  /\ run.pc = "plan"
  /\ req["run"].kind = "GET_NEXT_STEP"
  /\ Len(steps) >= 2
  /\ steps[Len(steps)].tool = "NAVBACK"
  /\ run.plans = 2

\* C22: a successful EXECUTE_STEP response carries done = true exactly when
\* the step is COMPLETE or an OBSERVE whose utilityBoolean is true; it is
\* false for OBSERVE with a false or absent flag and for GOTO, ACT, EXTRACT,
\* WAIT and NAVBACK.
C22_ExecuteStepDone ==
  \A c \in Clients :
    (/\ req[c].kind = "EXECUTE_STEP"
     /\ req[c].pc = "resp"
     /\ req[c].status = 200)
    => (req[c].done
          <=> \/ req[c].step.tool = "COMPLETE"
              \/ /\ req[c].step.tool = "OBSERVE"
                 /\ req[c].step.utilityBoolean = "true")

\* one caller holds the done = true response of an OBSERVE with a true flag
\* while another holds the done = false response of an OBSERVE without flag
C22_Witness ==
  \E c, d \in Clients :
    /\ req[c].kind = "EXECUTE_STEP" /\ req[d].kind = "EXECUTE_STEP"
    /\ req[c].pc = "resp" /\ req[d].pc = "resp"
    /\ req[c].status = 200 /\ req[d].status = 200
    /\ req[c].step.tool = "OBSERVE" /\ req[d].step.tool = "OBSERVE"
    /\ req[c].step.utilityBoolean = "true"
    /\ req[d].step.utilityBoolean = "absent"
    /\ req[c].done
    /\ ~req[d].done

\* C23: every EXECUTE_STEP request of a run is sent on the successful
\* response of the planning call (GET_NEXT_STEP or FOLLOW_UP_START) that
\* precedes it and carries exactly the step of that response; the request
\* keeps its step while it is served and starts at most one browser
\* operation, so a planned step is executed at most once.
C23_ExecutesPlannedStep ==
  [][/\ (req'["run"].kind = "EXECUTE_STEP" /\ req["run"].kind # "EXECUTE_STEP")
        => (/\ req["run"].kind \in {"GET_NEXT_STEP", "FOLLOW_UP_START"}
            /\ req["run"].pc = "resp"
            /\ req["run"].status = 200
            /\ req'["run"].pc = "sent"
            /\ req'["run"].step = req["run"].result
            /\ req'["run"].ops = 0)
     /\ (req'["run"].kind = "EXECUTE_STEP" /\ req["run"].kind = "EXECUTE_STEP")
        => (/\ req'["run"].step = req["run"].step
            /\ req'["run"].ops <= 1)
     /\ (req["run"].kind = "EXECUTE_STEP" /\ req'["run"].kind # "EXECUTE_STEP")
        => (/\ req["run"].pc = "resp"
            /\ req'["run"].kind \in {"NONE", "GET_NEXT_STEP"})]_vars

\* the step the second planning call of a run returned has been executed
\* by one browser operation
C23_Witness ==
  /\ run.pc = "exec"
  /\ run.plans = 2
  /\ req["run"].kind = "EXECUTE_STEP"
  /\ req["run"].pc = "resp"
  /\ req["run"].status = 200
  /\ req["run"].ops = 1
  /\ req["run"].step.tool = run.nextStep.tool
  /\ Len(steps) = 3

\* C24: the planning and execution calls of a run alternate: every
\* GET_NEXT_STEP of a run is sent on the response of an execution, which is
\* an EXECUTE_STEP or the START call that navigated to the starting point,
\* so two consecutive planning calls have exactly one execution between them.
C24_PlanExecAlternate ==
  [][(req'["run"].kind = "GET_NEXT_STEP" /\ req["run"].kind # "GET_NEXT_STEP")
     => (/\ req["run"].kind \in {"EXECUTE_STEP", "START"}
         /\ req["run"].pc = "resp"
         /\ req["run"].status = 200)]_vars

C26_ResultAttached ==
  /\ [][(/\ run.pc \in {"exec", "fexec"}
         /\ req["run"].pc = "resp"
         /\ req["run"].status = 200
         /\ run.nextStep.tool \in {"OBSERVE", "EXTRACT"}
         /\ run' # run)
        => LET n == Len(steps')
           IN /\ n = Len(steps)
              /\ n >= 1
              /\ steps'[n].tool = run.nextStep.tool
              /\ steps'[n].stepNumber = run.nextStep.stepNumber
              /\ steps'[n].observation = req["run"].observation
              /\ steps'[n].extraction = req["run"].extraction
              /\ HasResult(steps'[n])
              /\ \A i \in 1 .. (n - 1) : steps'[i] = steps[i]
              /\ req'["run"].kind = "GET_NEXT_STEP"
                   => LET shown == PromptSteps(req'["run"].previousSteps)
                      IN /\ Len(shown) = n
                         /\ shown[n].tool = run.nextStep.tool
                         /\ shown[n].observation = req["run"].observation
                         /\ shown[n].extraction = req["run"].extraction]_vars
  /\ [](\A i \in 1 .. Len(steps) :
          /\ steps[i].observation # NoObs => steps[i].tool = "OBSERVE"
          /\ steps[i].extraction # NoData => steps[i].tool = "EXTRACT")

\* the planner is asked for the step after an executed EXTRACT, and the
\* prompt shows the extraction on that step and no result on the step before
C26_Witness ==
  /\ run.pc = "plan"
  /\ req["run"].kind = "GET_NEXT_STEP"
  /\ req["run"].pc = "llm"
  /\ Len(steps) = 2
  /\ steps[2].tool = "EXTRACT"
  /\ steps[2].extraction # NoData
  /\ PromptSteps(req["run"].previousSteps)[2].extraction = steps[2].extraction
  /\ ~HasResult(steps[1])

C29_StartsWithNavigation ==
  /\ [][(req'["run"].kind = "START" /\ req["run"].kind # "START")
        => (/\ run.pc = "session"
            /\ run.kind = "initial"
            /\ run.plans = 0
            /\ req'["run"].sid = run'.sid
            /\ req'["run"].sid # NoSession)]_vars
  /\ [](req["run"].kind = "START"
        => (/\ req["run"].llms <= 1
            /\ req["run"].ops <= req["run"].llms
            /\ req["run"].pc \in {"llm", "engine"}
                 => req["run"].handle # NoHandle
            /\ (req["run"].pc = "resp" /\ req["run"].status = 200)
                 => (/\ req["run"].llms = 1
                     /\ req["run"].ops = 1
                     /\ req["run"].result.tool = "GOTO"
                     /\ req["run"].result.stepNumber = 1
                     /\ req["run"].steps = <<req["run"].result>>)))
  /\ [][(run.pc = "start" /\ req["run"].pc = "resp" /\ run' # run)
        => IF req["run"].status = 200
             THEN /\ run'.pc = "plan"
                  /\ run'.plans = 1
                  /\ steps' = <<req["run"].result>>
                  /\ req'["run"].kind = "GET_NEXT_STEP"
                  /\ req'["run"].previousSteps = steps'
             ELSE /\ run'.pc = "idle"
                  /\ run'.outcome = "FAILED"
                  /\ req'["run"] = NoReq]_vars
  /\ [][(run.kind = "initial" /\ req'["run"].kind = "GET_NEXT_STEP"
         /\ req["run"].kind # "GET_NEXT_STEP")
        => (/\ req["run"].kind \in {"START", "EXECUTE_STEP"}
            /\ req["run"].status = 200
            /\ steps'[1].tool = "GOTO"
            /\ steps'[1].stepNumber = 1)]_vars

\* the first GET_NEXT_STEP of an initial run is under way with the starting
\* navigation as the only step of the history
C29_Witness ==
  /\ run.kind = "initial"
  /\ run.pc = "plan"
  /\ run.plans = 1
  /\ req["run"].kind = "GET_NEXT_STEP"
  /\ req["run"].pc = "llm"
  /\ steps = <<BrowserStep("GOTO", "absent", 1)>>
  /\ req["run"].previousSteps = steps

\* C30: an EXECUTE_STEP with an ACT step passes to the engine the
\* ActionObject parsed from the instruction exactly when utilityBoolean is
\* true and the instruction text otherwise; when the flag is true and the
\* instruction does not parse, no browser operation is started and the
\* request is answered with a failure.
C30_ActArgument ==
  \A c \in Clients :
    (/\ req[c].kind = "EXECUTE_STEP"
     /\ req[c].step.tool = "ACT"
     /\ req[c].pc \in {"engine", "resp"}
     /\ req[c].error # "SessionInitError")
    => /\ req[c].given
            \in (IF req[c].step.utilityBoolean = "true"
                   THEN {"descriptor", "unparsed"} ELSE {"text"})
       /\ req[c].ops = (IF req[c].given = "unparsed" THEN 0 ELSE 1)
       /\ req[c].given = "unparsed"
            => (/\ req[c].pc = "resp"
                /\ req[c].status = 500
                /\ req[c].error = "ExecutionError")

\* one caller's ACT with a true flag failed on parsing without a browser
\* operation while another's succeeded with the parsed ActionObject
C30_Witness ==
  \E c, d \in Clients :
    /\ req[c].kind = "EXECUTE_STEP" /\ req[d].kind = "EXECUTE_STEP"
    /\ req[c].step = req[d].step
    /\ req[c].step.tool = "ACT"
    /\ req[c].step.utilityBoolean = "true"
    /\ req[c].pc = "resp" /\ req[d].pc = "resp"
    /\ req[c].given = "unparsed" /\ req[c].status = 500 /\ req[c].ops = 0
    /\ req[d].given = "descriptor" /\ req[d].status = 200 /\ req[d].ops = 1

\* C31: EXECUTE_ACTION is sent only for a run that ended SUSPENDED on an
\* OBSERVE step with a true utilityBoolean: never after an OBSERVE that
\* continued by itself and never after a run that ended COMPLETE or FAILED.
C31_ActionOnlyWhenSuspended ==
  [][(act.pc = "idle" /\ act'.pc = "wait")
     => (/\ run.pc = "idle"
         /\ run.outcome = "SUSPENDED"
         /\ Len(steps) > 0
         /\ steps[Len(steps)].tool = "OBSERVE"
         /\ Truthy(steps[Len(steps)].utilityBoolean))]_vars

\* C32: a follow-up (FOLLOW_UP_START) or a chosen action (EXECUTE_ACTION) is
\* sent for a session only when no request of a run and no EXECUTE_ACTION
\* for that session is still under way.
C32_NoRequestWhilePending ==
  [][\A c \in {"run", "act"} :
       (/\ req'[c].kind \in {"FOLLOW_UP_START", "EXECUTE_ACTION"}
        /\ req[c].kind # req'[c].kind)
       => \A d \in {"run", "act"} :
            req[d].pc = "none" \/ req[d].sid # req'[c].sid]_vars

\* C33: when handleSubmit or handleFollowUp returns, the run is in an end
\* state with isLoading false and isAgentComplete true, and as long as the
\* user submits no task, follow-up or action and does not return to the start
\* view, no step of the application changes either of the two.
C33_CompleteStays ==
  /\ [][(run.pc # "idle" /\ run'.pc = "idle")
        => (/\ run'.outcome \in Terminal
            /\ ~ui'.isLoading
            /\ session'.isAgentComplete)]_vars
  /\ [][(/\ run.pc = "idle"
         /\ run.outcome \in Terminal
         /\ ~ui.isLoading
         /\ session.isAgentComplete
         /\ run' = run
         /\ ~(act.pc = "idle" /\ act'.pc = "wait")
         /\ ~ui.returnTimer)
        => (~ui'.isLoading /\ session'.isAgentComplete)]_vars

\* C34: a request of route part_010 that is answered 400 is rejected when it
\* is received: it has started no browser operation and no call of the
\* reasoning service, and answering it constructs no Stagehand object and
\* leaves the registry as it was.
C34_RejectedTouchesNothing ==
  [][\A c \in Clients :
       (/\ req'[c].pc = "resp"
        /\ req'[c].status = 400
        /\ req[c].pc # "resp")
       => (/\ req[c].pc = "sent"
           /\ req'[c].ops = 0
           /\ req'[c].llms = 0
           /\ UNCHANGED <<activeSessions, stagehand, nextHandle>>)]_vars

\* C35: while a run is SUSPENDED with k candidate actions displayed,
\* submitting the number n sends the chosen-action request with candidate
\* n - 1 when 1 <= n <= k, and submitting anything else (a number out of
\* range, a text that is not a number) sends no request and leaves the run
\* SUSPENDED with the same k candidates
C35_ChoiceByNumber ==
  [][(/\ run.outcome = "SUSPENDED"
      /\ IsWaitingForAction
      /\ act.pc = "idle"
      /\ act' # act)
     => LET text == act'.submitted
            n == LeadingDigits(Trim(text), 0)
            isNumber == /\ Trim(text) # <<>>
                        /\ \A i \in 1 .. Len(Trim(text)) : IsDigit(Trim(text)[i])
        IN IF isNumber /\ 1 <= n /\ n <= AvailableActions
             THEN /\ act'.pc = "wait"
                  /\ act'.chosen = n - 1
                  /\ req'["act"].kind = "EXECUTE_ACTION"
                  /\ req'["act"].actionObject = n
             ELSE /\ act'.pc = "idle"
                  /\ req' = req
                  /\ run' = run
                  /\ messages' = messages]_vars

\* C36: however terminate (DELETE) requests for the same session id
\* interleave, the session's handle is closed at most once: one request
\* performs the close and the eviction, the others find nothing to close
C36_ClosedAtMostOnce ==
  \A h \in Handles : stagehand[h].closeCalls <= 1

\* C37: the narration texts generateSpeech queues are played in the order
\* they were queued, each at most once, and at most one processQueue chain
\* is active at a time, whenever generateSpeech is called relative to speech
\* generation and playback
C37_OneChainInOrder ==
  /\ ActiveChains <= 1
  /\ \A i, j \in 1 .. Len(speech.played) :
       i < j => speech.played[i] < speech.played[j]

\* C38: no narration text leaves the audio queue by shift() without having
\* been played or having itself failed generation or playback; a playback or
\* a speech request from before a clear of the queue never removes a text
\* queued after it
C38_RemovedOnlyWhenDone ==
  \A text \in speech.removed :
    \/ text \in speech.failed
    \/ \E i \in 1 .. Len(speech.played) : speech.played[i] = text

====
